---- MODULE Spec2Model ----
(***************************************************************************)
(* A model of keystone-agent: the run-all fan-out of the specialists       *)
(* (agents/tools.py), the consensus ladder exercised by                    *)
(* tests/test_consensus.py, and the decision API run_board_async with its  *)
(* DynamoDB session store (core/runner.py, storage/session.py), the        *)
(* session's item list, the project history query and the ratings          *)
(* (storage/session.py), the commands of the CLI (cli.py,                  *)
(* schemas/inputs.py), the background tasks and the event loop of          *)
(* run_board (utils/background.py, core/runner.py), the progress tracker   *)
(* BoardProgress (core/runner.py), and the aggregation helpers exercised   *)
(* by tests/test_consensus.py.                                             *)
(*                                                                         *)
(* Numbers: a confidence c in [0,1] is kept as the integer 100*c; a mean   *)
(* is kept as the pair [num, den] and compared by cross-multiplication.    *)
(* A text is kept by what the code looks at: an error message by its       *)
(* length, a reason by its kind and the numbers it prints.                 *)
(***************************************************************************)
EXTENDS Integers, Sequences, FiniteSets, TLC

VARIABLES
    toolPc,       \* run_all_specialists_tool: "idle", "gathering", "returned"
    tasks,        \* codename -> the task asyncio.gather holds for that agent
    outputs,      \* the dict the tool returns (a function on codenames)
    opinionMap,   \* the OpinionMap handed to apply_consensus_rules
    mode,         \* the request mode handed to apply_consensus_rules
    consensus,    \* its result, NoValue before the call
    table,        \* the DynamoDB table: session_id -> item (attribute -> value)
    clock,        \* the time the last _now() returned
    runs,         \* the invocations of run_board_async, the last one current
    finalWrites,  \* session_id -> how many times final_output was written
    callers,      \* the callers of the store: each one's session object and step
    ghost,        \* what the calls made so far should have left behind
    ret,          \* the last finished call: its arguments, result, table before
    cli,          \* the command being run: its arguments, the request built
    progress,     \* the BoardProgress of the request being streamed
    bg            \* run_board's event loop and the fire_and_forget tasks

dispatchVars == <<toolPc, tasks, outputs>>
consensusVars == <<opinionMap, mode, consensus>>
runnerVars == <<table, clock, runs, finalWrites>>
storeVars == <<callers, ghost, ret>>
sideVars == <<progress, bg>>
vars == <<toolPc, tasks, outputs, opinionMap, mode, consensus,
          table, clock, runs, finalWrites, callers, ghost, ret, cli,
          progress, bg>>

NoValue == [none |-> TRUE]

----------------------------------------------------------------------------
(* The roster: SPECIALIST_CONFIGS, in order.  The purist is the last one.  *)

Roster == <<"Lynx", "Wildfire", "Bedrock", "Leverage", "Sentinel", "Prism", "Razor">>

Purist == "Razor"

\* How many of the six standard specialists sit on the board the model
\* explores; the purist always sits.  build_run_all_specialists_tool and
\* apply_consensus_rules take any dict of agents.
BoardSize == 4

Min(a, b) == IF a < b THEN a ELSE b

Board == SubSeq(Roster, 1, Min(BoardSize, Len(Roster) - 1)) \o <<Purist>>

BoardSet == {Board[i] : i \in 1..Len(Board)}

----------------------------------------------------------------------------
(* Verdict and PuristVerdict, by their values.                             *)

Verdict == {"go", "no_go", "pivot", "unclear"}

PuristVerdict == {"GO", "NO", "CUT", "REFRAME"}

----------------------------------------------------------------------------
(* run_specialist_agent: one specialist call, with its failure captured.   *)

\* str(e)[:200]
ErrLimit == 200

\* len("No output from specialist")
NoOutputLen == 25

\* A summary that is not cut.
Truncate_NoCut(n) == n

\* The length of s[:ErrLimit] for a text s of length n.
Truncate(n) == Min(n, ErrLimit)

\* The agent_name a specialist may write into its own structured output:
\* its codename, or something else (the field is filled in by the model).
WrittenNames(name) == {name, "Someone"}

\* The lengths of the exception messages the calls may raise.
ExcLens == {150, 201}

\* The structured outputs the fan-out is explored with.
DispatchOpinions(name) ==
    [agent_name : WrittenNames(name),
     verdict : IF name = Purist THEN {"GO", "CUT"} ELSE {"go", "no_go"},
     confidence : {60}]

\* What Runner.run does for one specialist: a final output, no final
\* output, or an exception with a message of some length.
AgentOutcomes(name) ==
    {[kind |-> "output", value |-> o] : o \in DispatchOpinions(name)}
        \cup {[kind |-> "none"]}
        \cup {[kind |-> "raise", msglen |-> n] : n \in ExcLens}

Failure(name, kind, len) ==
    [failed |-> TRUE, agent_name |-> name, error |-> [kind |-> kind, len |-> len]]

IsFailure(entry) == "failed" \in DOMAIN entry

\* The dict run_specialist_agent returns for the agent `name` when
\* Runner.run ends in `outcome`.
RunSpecialistAgent(name, outcome) ==
    IF outcome.kind = "output"
    THEN [outcome.value EXCEPT !.agent_name = name]
    ELSE IF outcome.kind = "none"
    THEN Failure(name, "no_output", NoOutputLen)
    ELSE Failure(name, "exception", Truncate(outcome.msglen))

----------------------------------------------------------------------------
(* run_all_specialists_tool: asyncio.gather over the agents, then the      *)
(* aggregation of the results under the agents' keys.                      *)

\* A task: its state, how many times Runner.run was started for it, what
\* the run ended in and what run_specialist_agent returned.
IdleTask == [state |-> "idle", attempts |-> 0, outcome |-> NoValue, result |-> NoValue]

RunningTask == [state |-> "running", attempts |-> 0, outcome |-> NoValue, result |-> NoValue]

\* A gather that completes with the first task that completes.
GatherDone_FirstCompleted(ts) == \E name \in BoardSet : ts[name].state = "done"

\* asyncio.gather(*tasks, return_exceptions=True) completes when every task
\* has completed.
GatherDone(ts) == \A name \in BoardSet : ts[name].state = "done"

\* A result list in the reverse of the order of agents.values().
GatherResults_Reversed(ts) ==
    LET done == SelectSeq(Board, LAMBDA name : ts[name].state = "done")
    IN [i \in 1..Len(done) |-> ts[done[Len(done) + 1 - i]].result]

\* Its result list, in the order of agents.values().
GatherResults(ts) ==
    LET done == SelectSeq(Board, LAMBDA name : ts[name].state = "done")
    IN [i \in 1..Len(done) |-> ts[done[i]].result]

\* One pass of the aggregation loop: an exception object becomes a Failure,
\* anything else is stored as it is.
AggregateEntry(codename, result) ==
    IF result.exc
    THEN Failure(codename, "exception", Truncate(result.msglen))
    ELSE result.value

\* for codename, result in zip(agents.keys(), results): outputs[codename] = ...
Aggregate(keys, results) ==
    LET n == Min(Len(keys), Len(results))
        IndexOf(k) == CHOOSE i \in 1..n : keys[i] = k /\ \A j \in (i+1)..n : keys[j] # k
    IN [k \in {keys[i] : i \in 1..n} |-> AggregateEntry(k, results[IndexOf(k)])]

\* The tool is called: the coroutines are created and gather schedules them.
CallRunAll ==
    /\ toolPc \in {"idle", "returned"}
    /\ toolPc' = "gathering"
    /\ tasks' = [name \in BoardSet |-> RunningTask]
    /\ outputs' = NoValue
    /\ UNCHANGED <<consensusVars, runnerVars, storeVars, cli, sideVars>>

\* One specialist's call settles: run_specialist_agent awaits Runner.run
\* once and turns what it ended in into its return value.  The others are
\* not touched.
Settle(name) ==
    /\ toolPc = "gathering"
    /\ tasks[name].state = "running"
    /\ \E oc \in AgentOutcomes(name) :
           tasks' = [tasks EXCEPT ![name] =
                        [state |-> "done", attempts |-> 1, outcome |-> oc,
                         result |-> [exc |-> FALSE,
                                     value |-> RunSpecialistAgent(name, oc)]]]
    /\ UNCHANGED <<toolPc, outputs, consensusVars, runnerVars, storeVars, cli, sideVars>>

\* gather is done: the results are aggregated and the tool returns.
ReturnAll ==
    /\ toolPc = "gathering"
    /\ GatherDone(tasks)
    /\ outputs' = Aggregate(Board, GatherResults(tasks))
    /\ toolPc' = "returned"
    /\ UNCHANGED <<tasks, consensusVars, runnerVars, storeVars, cli, sideVars>>

InitDispatch ==
    /\ toolPc = "idle"
    /\ tasks = [name \in BoardSet |-> IdleTask]
    /\ outputs = NoValue
    /\ opinionMap = NoValue
    /\ mode = "review"
    /\ consensus = NoValue
    /\ table = <<>>
    /\ clock = 0
    /\ runs = <<>>
    /\ finalWrites = <<>>
    /\ callers = <<>>
    /\ ghost = NoValue
    /\ ret = NoValue
    /\ cli = NoValue
    /\ progress = NoValue
    /\ bg = NoValue

NextDispatch ==
    \/ CallRunAll
    \/ \E name \in BoardSet : Settle(name)
    \/ ReturnAll

SpecDispatch == InitDispatch /\ [][NextDispatch]_vars

\* An evaluator stops responding: its `await Runner.run(...)` never
\* completes, and nothing else in run_specialist_agent ends the wait.
Hang(name) ==
    /\ toolPc = "gathering"
    /\ tasks[name].state = "running"
    /\ tasks' = [tasks EXCEPT ![name].state = "hung", ![name].attempts = 1]
    /\ UNCHANGED <<toolPc, outputs, consensusVars, runnerVars, storeVars, cli, sideVars>>

NextFanOut ==
    \/ CallRunAll
    \/ \E name \in BoardSet : Settle(name)
    \/ \E name \in BoardSet : Hang(name)
    \/ ReturnAll

\* The event loop runs every task that can continue, and the tool's
\* coroutine once gather is done.
FairFanOut ==
    /\ \A name \in BoardSet : WF_vars(Settle(name))
    /\ WF_vars(ReturnAll)

SpecFanOut == InitDispatch /\ [][NextFanOut]_vars /\ FairFanOut

----------------------------------------------------------------------------
(* apply_consensus_rules(outputs, mode): the consensus ladder.  The module *)
(* keystone_agent.core.consensus is imported by tests/test_consensus.py    *)
(* and is not among the sources; the ladder is written from section 4.2 of *)
(* the specification and agrees with the five tests of TestConsensusRules. *)

\* The confidences the ladder is explored with; 75 is the override threshold.
ConfLevels == {60, 75}

OverrideThreshold == 75

NoGoThreshold == 2

\* The OpinionMaps over the board: one entry of its own kind per member.
\* An entry is picked by its index among the member's possible entries.
EntryChoices == {"failed"} \cup ((1..4) \X ConfLevels)

VerdictAt(name, i) ==
    IF name = Purist
    THEN <<"GO", "NO", "CUT", "REFRAME">>[i]
    ELSE <<"go", "no_go", "pivot", "unclear">>[i]

EntryAt(name, choice) ==
    IF choice = "failed"
    THEN Failure(name, "exception", 150)
    ELSE [agent_name |-> name, verdict |-> VerdictAt(name, choice[1]),
          confidence |-> choice[2]]

OpinionMapOf(pick) == [n \in DOMAIN pick |-> EntryAt(n, pick[n])]

\* A verdict as the vote it casts: the text of the verdict, in capitals.
Vote(verdict) ==
    CASE verdict = "go" -> "GO"
      [] verdict = "no_go" -> "NO_GO"
      [] verdict = "pivot" -> "PIVOT"
      [] verdict = "unclear" -> "UNCLEAR"
      [] OTHER -> verdict

Votes == {"GO", "NO_GO", "PIVOT", "UNCLEAR", "NO", "CUT", "REFRAME"}

NonFailed(m) == {k \in DOMAIN m : ~IsFailure(m[k])}

Voters(m, v) == {k \in NonFailed(m) : Vote(m[k].verdict) = v}

RECURSIVE SumConf(_, _)
SumConf(m, S) ==
    IF S = {} THEN 0
    ELSE LET k == CHOOSE x \in S : TRUE
         IN m[k].confidence + SumConf(m, S \ {k})

\* The mean confidence of the opinions of S, as a fraction.
MeanConf(m, S) == [num |-> SumConf(m, S), den |-> Cardinality(S)]

Fixed(c) == [num |-> c, den |-> 1]

\* Rule 1: every roster member is a Failure.
TotalFailure(m) == NonFailed(m) = {}

\* A threshold of three.
RejectionThreshold_Three(m) == Cardinality(Voters(m, "NO_GO")) >= NoGoThreshold + 1

\* Rule 2: at least two non-failed opinions voted NO_GO.
RejectionThreshold(m) == Cardinality(Voters(m, "NO_GO")) >= NoGoThreshold

\* Rule 3: the purist's opinion exists and is CUT or REFRAME.
VetoCandidate(m) ==
    /\ Purist \in NonFailed(m)
    /\ m[Purist].verdict \in {"CUT", "REFRAME"}

GoOthers(m) == Voters(m, "GO") \ {Purist}

HighGoOthers(m) == {k \in GoOthers(m) : m[k].confidence >= OverrideThreshold}

\* An override at half of the other GO voters.
VetoOverridden_AtHalf(m) == 2 * Cardinality(HighGoOthers(m)) >= Cardinality(GoOthers(m))

\* The veto is overridden when a strict majority of the other GO voters
\* have a confidence of at least 0.75.
VetoOverridden(m) == 2 * Cardinality(HighGoOthers(m)) > Cardinality(GoOthers(m))

PuristVeto(m) == VetoCandidate(m) /\ ~VetoOverridden(m)

\* A plurality that a tie for first place satisfies.
GoPlurality_Tie(m) ==
    \A v \in Votes \ {"GO"} :
        Cardinality(Voters(m, "GO")) >= Cardinality(Voters(m, v))

\* Rule 4: GO is the strict plurality verdict among the non-failed opinions.
GoPlurality(m) ==
    \A v \in Votes \ {"GO"} :
        Cardinality(Voters(m, "GO")) > Cardinality(Voters(m, v))

ConsensusResult(verdict, confidence, reasons) ==
    [verdict |-> verdict, confidence |-> confidence, reasons |-> reasons]

\* The ladder with the purist veto consulted before the rejection threshold.
ApplyConsensusRules_VetoFirst(m, md) ==
    IF TotalFailure(m)
    THEN ConsensusResult("UNCLEAR", Fixed(30), <<[kind |-> "no_usable_opinion"]>>)
    ELSE IF PuristVeto(m)
    THEN ConsensusResult("PIVOT", Fixed(m[Purist].confidence),
             <<[kind |-> "purist_veto", who |-> Purist, objection |-> m[Purist].verdict]>>)
    ELSE IF RejectionThreshold(m)
    THEN ConsensusResult("NO_GO", MeanConf(m, Voters(m, "NO_GO")),
             <<[kind |-> "voted_no_go", count |-> Cardinality(Voters(m, "NO_GO"))]>>)
    ELSE IF GoPlurality(m)
    THEN ConsensusResult("GO", MeanConf(m, Voters(m, "GO")),
             <<[kind |-> "voted_go", count |-> Cardinality(Voters(m, "GO"))]>>)
    ELSE ConsensusResult("UNCLEAR",
             IF NonFailed(m) = {} THEN Fixed(50) ELSE MeanConf(m, NonFailed(m)),
             <<[kind |-> "no_clear_majority"]>>)

ApplyConsensusRules(m, md) ==
    IF TotalFailure(m)
    THEN ConsensusResult("UNCLEAR", Fixed(30), <<[kind |-> "no_usable_opinion"]>>)
    ELSE IF RejectionThreshold(m)
    THEN ConsensusResult("NO_GO", MeanConf(m, Voters(m, "NO_GO")),
             <<[kind |-> "voted_no_go", count |-> Cardinality(Voters(m, "NO_GO"))]>>)
    ELSE IF PuristVeto(m)
    THEN ConsensusResult("PIVOT", Fixed(m[Purist].confidence),
             <<[kind |-> "purist_veto", who |-> Purist, objection |-> m[Purist].verdict]>>)
    ELSE IF GoPlurality(m)
    THEN ConsensusResult("GO", MeanConf(m, Voters(m, "GO")),
             <<[kind |-> "voted_go", count |-> Cardinality(Voters(m, "GO"))]>>)
    ELSE ConsensusResult("UNCLEAR",
             IF NonFailed(m) = {} THEN Fixed(50) ELSE MeanConf(m, NonFailed(m)),
             <<[kind |-> "no_clear_majority"]>>)

\* The ladder is applied to the OpinionMap.
Evaluate ==
    /\ opinionMap # NoValue
    /\ consensus = NoValue
    /\ consensus' = ApplyConsensusRules(opinionMap, mode)
    /\ UNCHANGED <<opinionMap, mode, dispatchVars, runnerVars, storeVars, cli, sideVars>>

InitConsensus ==
    /\ \E pick \in [BoardSet -> EntryChoices] : opinionMap = OpinionMapOf(pick)
    /\ mode = "review"
    /\ consensus = NoValue
    /\ toolPc = "idle"
    /\ tasks = [name \in BoardSet |-> IdleTask]
    /\ outputs = NoValue
    /\ table = <<>>
    /\ clock = 0
    /\ runs = <<>>
    /\ finalWrites = <<>>
    /\ callers = <<>>
    /\ ghost = NoValue
    /\ ret = NoValue
    /\ cli = NoValue
    /\ progress = NoValue
    /\ bg = NoValue

NextConsensus == Evaluate

SpecConsensus == InitConsensus /\ [][NextConsensus]_vars

----------------------------------------------------------------------------
(* The session store: DynamoDBSession over one table.  An item is a        *)
(* function from attribute names to values.                                *)

\* Python's None, where a text is optional.
Null == "null"

\* _convert_floats: every float becomes the Decimal of its repr.
ConvertFloats(output) == [output EXCEPT !.confidence = [decimal |-> @]]

\* The clock counts ticks; a second has this many of them (a microsecond
\* clock has 1000000).
TicksPerSec == 2

\* _now(): datetime.now(timezone.utc).isoformat().  The text is the date
\* and time to the second in fixed width, then ".ffffff+00:00", or only
\* "+00:00" when the fraction is zero.  It is kept as the second, the
\* character that follows it, and the fraction.
IsoFormat(t) ==
    [sec |-> t \div TicksPerSec,
     sep |-> IF t % TicksPerSec = 0 THEN "+" ELSE ".",
     frac |-> t % TicksPerSec]

\* ord(ch) of the two characters that can follow the second.
Ord(ch) == IF ch = "+" THEN 43 ELSE 46

\* An order of the texts by their fraction character backwards.
StrLeq_DotFirst(a, b) ==
    \/ a.sec < b.sec
    \/ a.sec = b.sec /\ Ord(a.sep) > Ord(b.sep)
    \/ a.sec = b.sec /\ a.sep = b.sep /\ a.frac <= b.frac

\* The order of the index's sort key, a string attribute: the texts
\* compared character by character.
StrLeq(a, b) ==
    \/ a.sec < b.sec
    \/ a.sec = b.sec /\ Ord(a.sep) < Ord(b.sep)
    \/ a.sec = b.sec /\ a.sep = b.sep /\ a.frac <= b.frac

\* The item _ensure_created puts: the key, the owner, the creation time, an
\* empty item list and the metadata's entries.
NewItem(sid, pid, now, metadata) ==
    [session_id |-> sid, project_id |-> pid, created_at |-> IsoFormat(now),
     items |-> <<>>, mode |-> metadata.mode]

\* update_item(SET ...): the named attributes are set, the others kept; an
\* absent item is created with the key and the named attributes.
UpdateItem(tbl, sid, attrs) ==
    IF sid \in DOMAIN tbl
    THEN [tbl EXCEPT ![sid] = attrs @@ tbl[sid]]
    ELSE tbl @@ (sid :> (attrs @@ [session_id |-> sid]))

\* _ensure_created on a session object: nothing when the object is marked
\* created or get_item finds the item; a ClientError of get_item is passed
\* over; otherwise the item is put.
EnsureCreated(tbl, session, now, getFails) ==
    IF session.created \/ (~getFails /\ session.session_id \in DOMAIN tbl)
    THEN tbl
    ELSE (session.session_id :>
              NewItem(session.session_id, session.project_id, now, session.metadata))
         @@ tbl

RECURSIVE NewestFirst(_, _)
NewestFirst(tbl, S) ==
    IF S = {} THEN <<>>
    ELSE LET top == CHOOSE x \in S : \A y \in S : StrLeq(tbl[y].created_at, tbl[x].created_at)
         IN <<top>> \o NewestFirst(tbl, S \ {top})

\* get_project_history: the index project_id-created_at-index, newest
\* first, at most `limit` items, each projected to a history entry.
GetProjectHistory(tbl, pid, limit) ==
    LET indexed == {sid \in DOMAIN tbl :
                        /\ {"project_id", "created_at"} \subseteq DOMAIN tbl[sid]
                        /\ tbl[sid].project_id = pid}
        ordered == NewestFirst(tbl, indexed)
        page == SubSeq(ordered, 1, Min(limit, Len(ordered)))
    IN [i \in 1..Len(page) |->
            [session_id |-> page[i],
             created_at |-> tbl[page[i]].created_at,
             verdict |-> IF "final_output" \in DOMAIN tbl[page[i]]
                         THEN tbl[page[i]].final_output.final_verdict
                         ELSE Null]]

\* format_history_for_context calls verdict.upper() on each of the first
\* five entries: an entry whose verdict is None raises AttributeError.
FormatHistoryRaises(history) ==
    \E i \in 1..Min(5, Len(history)) : history[i].verdict = Null

----------------------------------------------------------------------------
(* run_board_async.                                                        *)

\* How many invocations of run_board_async the model explores.
MaxRuns == 2

\* settings.history_limit
HistoryLimit == 5

DefaultProject == "default"

\* The validated requests the model explores: the mode, the project (or
\* None) and the context (None, or a ProjectContext built from --stage).
Requests == [mode : {"review", "decide"}, project_id : {Null, "acme"},
             context : {Null, "ProjectContext"}]

\* The fields of ProjectContext.
ProjectContextFields == {"stage", "traction", "constraints", "previous_decisions"}

\* _build_orchestrator_input reads ctx.product_stage first when the request
\* has a context: AttributeError when ProjectContext has no such field.
BuildOrchestratorInputRaises(request) ==
    /\ request.context # Null
    /\ "product_stage" \notin ProjectContextFields

\* The fields Experiment requires.
ExperimentFields == {"hypothesis", "test", "success_metric", "timebox"}

\* Experiment(**kwargs): a missing required field is a ValidationError,
\* an unknown keyword is ignored.
MakeExperiment(kwargs) ==
    IF ExperimentFields \subseteq DOMAIN kwargs
    THEN [f \in ExperimentFields |-> kwargs[f]]
    ELSE [raised |-> "ValidationError"]

Raised(v) == "raised" \in DOMAIN v

\* The keywords _build_fallback_output passes to Experiment.
FallbackExperimentArgs ==
    [name |-> "Validate Core Assumption",
     hypothesis |-> "The core problem is well understood",
     success_criteria |-> "5 users confirm the problem exists",
     time_box |-> "3 days"]

\* _build_fallback_output: its arguments are built first, then the output.
BuildFallbackOutput(request) ==
    LET experiment == MakeExperiment(FallbackExperimentArgs)
    IN IF Raised(experiment)
       THEN experiment
       ELSE [request_type |-> request.mode,
             final_verdict |-> "unclear",
             confidence |-> 0,
             single_best_experiment |-> experiment,
             failed_agents |-> <<"All specialists">>]

\* An experiment the orchestrator may write.
SomeExperiment ==
    [hypothesis |-> "h", test |-> "t", success_metric |-> "50%", timebox |-> "1 week"]

\* result.final_output of the orchestrator run: None, or a BoardFinalOutput
\* the orchestrator agent wrote (output_type=BoardFinalOutput).
NoOutput == [none |-> TRUE]

OrchestratorOutputs(request) ==
    {[request_type |-> request.mode,
      final_verdict |-> d[1],
      confidence |-> d[2],
      single_best_experiment |-> SomeExperiment,
      failed_agents |-> <<>>] : d \in {<<"unclear", 30>>, <<"go", 80>>}}

\* What the specialists do when the orchestrator calls run_all_specialists:
\* all produce an opinion, or all fail.
SomeOpinion(name) ==
    [agent_name |-> name, verdict |-> IF name = Purist THEN "GO" ELSE "go",
     confidence |-> 60]

FanOuts ==
    {[name \in BoardSet |-> [kind |-> "output", value |-> SomeOpinion(name)]],
     [name \in BoardSet |-> [kind |-> "none"]]}

\* The map run_all_specialists_tool returns when the calls end as in `fan`.
RunAllSpecialists(fan) ==
    Aggregate(Board,
              [i \in 1..Len(Board) |->
                  [exc |-> FALSE, value |-> RunSpecialistAgent(Board[i], fan[Board[i]])]])

\* A session identifier that every session object gets.
FreshSessionId_Reused(rs) == 1

\* str(uuid.uuid4()): an identifier no earlier session has.
FreshSessionId(rs) == Len(rs) + 1

Current == runs[Len(runs)]

SetCurrent(run) == runs' = [runs EXCEPT ![Len(runs)] = run]

\* run_board_async up to the start of the orchestrator run: the session
\* object (a fresh uuid4, nothing stored yet), the project history, the
\* orchestrator input.
StartRun(request) ==
    /\ Len(runs) < MaxRuns
    /\ runs # <<>> => Current.pc \in {"returned", "raised"}
    /\ \E queryFails \in BOOLEAN :
        LET sid == FreshSessionId(runs)
            history == IF request.project_id = Null \/ queryFails THEN <<>>
                       ELSE GetProjectHistory(table, request.project_id, HistoryLimit)
            error == IF FormatHistoryRaises(history)
                     THEN [raised |-> "AttributeError", in |-> "format_history_for_context"]
                     ELSE IF BuildOrchestratorInputRaises(request)
                     THEN [raised |-> "AttributeError", in |-> "_build_orchestrator_input"]
                     ELSE NoValue
        IN runs' = Append(runs,
                     [request |-> request,
                      session |-> [session_id |-> sid,
                                   project_id |-> IF request.project_id = Null
                                                  THEN DefaultProject
                                                  ELSE request.project_id,
                                   metadata |-> [mode |-> request.mode],
                                   created |-> FALSE],
                      history |-> history,
                      toolMap |-> NoValue,
                      rawOutput |-> NoValue,
                      final |-> NoValue,
                      result |-> NoValue,
                      error |-> error,
                      storeFault |-> "none",
                      pc |-> IF error = NoValue THEN "orchestrating" ELSE "raised"])
    /\ UNCHANGED <<table, clock, finalWrites, dispatchVars, consensusVars, storeVars, cli, sideVars>>

\* The orchestrator calls run_all_specialists and gets the map.
ToolRunAll ==
    /\ runs # <<>>
    /\ Current.pc = "orchestrating"
    /\ Current.toolMap = NoValue
    /\ \E fan \in FanOuts :
        SetCurrent([Current EXCEPT !.toolMap = RunAllSpecialists(fan)])
    /\ UNCHANGED <<table, clock, finalWrites, dispatchVars, consensusVars, storeVars, cli, sideVars>>

\* The stream ends; final_output is taken from the result, or built by
\* _build_fallback_output when there is none.
OrchestratorDone ==
    /\ runs # <<>>
    /\ Current.pc = "orchestrating"
    /\ \E raw \in OrchestratorOutputs(Current.request) \cup {NoOutput} :
        LET final == IF raw = NoOutput THEN BuildFallbackOutput(Current.request) ELSE raw
        IN IF Raised(final)
           THEN SetCurrent([Current EXCEPT !.rawOutput = raw, !.pc = "raised",
                               !.error = [raised |-> final.raised,
                                          in |-> "_build_fallback_output"]])
           ELSE SetCurrent([Current EXCEPT !.rawOutput = raw, !.final = final,
                               !.pc = "saving"])
    /\ UNCHANGED <<table, clock, finalWrites, dispatchVars, consensusVars, storeVars, cli, sideVars>>

\* A store in which only put_item's ClientError leaves save_final_output.
ClientErrorEscapes_OnlyPut(call) == call = "put_item"

\* Which store call's ClientError leaves save_final_output: get_item's is
\* caught in _ensure_created, put_item's and update_item's are not caught.
ClientErrorEscapes(call) == call \in {"put_item", "update_item"}

\* await session.save_final_output(final_output.model_dump()), then return.
\* The store may fail in get_item, in put_item or in update_item; a call
\* that failed has written nothing.
SaveFinalOutput ==
    /\ runs # <<>>
    /\ Current.pc = "saving"
    /\ \E fault \in {"none", "get_item", "put_item", "update_item"} :
        LET session == Current.session
            sid == session.session_id
            created == IF fault = "put_item" THEN table
                       ELSE EnsureCreated(table, session, clock + 1, fault = "get_item")
            updated == IF fault \in {"put_item", "update_item"} THEN created
                       ELSE UpdateItem(created, sid,
                                [final_output |-> ConvertFloats(Current.final),
                                 completed_at |-> IsoFormat(clock + 2)])
        IN IF fault = "put_item" /\ ClientErrorEscapes(fault)
           THEN /\ SetCurrent([Current EXCEPT !.pc = "raised", !.storeFault = fault,
                                  !.error = [raised |-> "StoreError", in |-> "put_item"]])
                /\ UNCHANGED <<table, clock, finalWrites>>
           ELSE IF fault = "update_item" /\ ClientErrorEscapes(fault)
           THEN /\ table' = created
                /\ clock' = clock + 1
                /\ SetCurrent([Current EXCEPT !.pc = "raised", !.storeFault = fault,
                                  !.session.created = TRUE,
                                  !.error = [raised |-> "StoreError", in |-> "update_item"]])
                /\ UNCHANGED finalWrites
           ELSE /\ table' = updated
                /\ clock' = clock + 2
                /\ finalWrites' = IF updated = created THEN finalWrites
                                  ELSE (sid :> 1 + (IF sid \in DOMAIN finalWrites
                                                    THEN finalWrites[sid] ELSE 0))
                                       @@ finalWrites
                /\ SetCurrent([Current EXCEPT !.pc = "returned", !.storeFault = fault,
                                  !.session.created = TRUE,
                                  !.result = [decision |-> Current.final,
                                              session_id |-> sid]])
    /\ UNCHANGED <<dispatchVars, consensusVars, storeVars, cli, sideVars>>

InitRunner ==
    /\ table = <<>>
    /\ clock = 0
    /\ runs = <<>>
    /\ finalWrites = <<>>
    /\ callers = <<>>
    /\ ghost = NoValue
    /\ ret = NoValue
    /\ cli = NoValue
    /\ progress = NoValue
    /\ bg = NoValue
    /\ toolPc = "idle"
    /\ tasks = [name \in BoardSet |-> IdleTask]
    /\ outputs = NoValue
    /\ opinionMap = NoValue
    /\ mode = "review"
    /\ consensus = NoValue

NextRunner ==
    \/ \E request \in Requests : StartRun(request)
    \/ ToolRunAll
    \/ OrchestratorDone
    \/ SaveFinalOutput

SpecRunner == InitRunner /\ [][NextRunner]_vars

----------------------------------------------------------------------------
(* DynamoDBSession as the SDK's session: get_items, add_items, pop_item    *)
(* and clear_session, called by two session objects that carry the same    *)
(* session_id (DynamoDBSession(session_id=...) resumes a session).         *)
(* _ensure_created reads and then puts in two requests to the table, so    *)
(* another caller's requests can come between them.                        *)

\* How many calls the callers make in a behaviour.
MaxCalls == 4

Callers == {"A", "B"}

\* The session both objects name.
SessionKey == 1

\* Conversation items: a message, a message that carries a float, and a
\* reasoning trace.
ItemA == [type |-> "message", payload |-> [text |-> "a"]]

ItemF == [type |-> "message", payload |-> [float |-> 1]]

ItemR == [type |-> "reasoning", payload |-> [text |-> "r"]]

\* The lists add_items is called with.
ItemLists == {<<ItemA, ItemF>>, <<ItemR, ItemA>>, <<ItemR>>}

\* _convert_floats on a list of dicts: each float becomes a Decimal.
ConvertFloatsList(items) ==
    [i \in 1..Len(items) |->
        [items[i] EXCEPT !.payload = IF "float" \in DOMAIN @
                                     THEN [decimal |-> @.float] ELSE @]]

\* A filter that lets every item through.
FilterReasoning_Keep(items) == items

\* [item for item in items if item.get("type") != "reasoning"]
FilterReasoning(items) == SelectSeq(items, LAMBDA item : item.type # "reasoning")

\* response.get("Item", {}).get("items", [])
StoredItems(tbl, sid) ==
    IF sid \in DOMAIN tbl /\ "items" \in DOMAIN tbl[sid] THEN tbl[sid].items ELSE <<>>

\* SET #items = list_append(if_not_exists(#items, :empty), :new_items)
ListAppend(tbl, sid, new) ==
    UpdateItem(tbl, sid, [items |-> StoredItems(tbl, sid) \o new])

\* REMOVE #items[index], index counted from 0.
RemoveAt(tbl, sid, index) ==
    LET items == StoredItems(tbl, sid)
    IN UpdateItem(tbl, sid,
           [items |-> [i \in 1..(Len(items) - 1) |->
                          IF i <= index THEN items[i] ELSE items[i + 1]]])

\* The calls and their arguments.
StoreOps ==
    {[name |-> "add_items", items |-> items] : items \in ItemLists}
    \cup {[name |-> n, items |-> <<>>] : n \in {"get_items", "pop_item", "clear_session"}}

\* The calls that begin with await self._ensure_created().
EnsuringOps == {"get_items", "add_items", "pop_item"}

NewCaller ==
    [session |-> [session_id |-> SessionKey, project_id |-> "acme",
                  metadata |-> [mode |-> "review"], created |-> FALSE],
     pc |-> "idle", op |-> NoValue]


\* The abstract item list of the session: what a call's items are once
\* stored, and the list after each call.
Replayable(items) == SelectSeq(items, LAMBDA item : item.type = "message")

AsStored(item) ==
    IF item = ItemF THEN [type |-> "message", payload |-> [decimal |-> 1]] ELSE item

AbstractAppend(list, items) ==
    LET kept == Replayable(items)
    IN list \o [i \in 1..Len(kept) |-> AsStored(kept[i])]

AbstractPop(list) == IF list = <<>> THEN list ELSE SubSeq(list, 1, Len(list) - 1)

\* A call begins.  A call that ensures first, on an object not yet marked
\* created, sends get_item: the item found marks the object created; no
\* item, or a ClientError, leaves the put to be sent.
CallStore(c, op) ==
    /\ callers[c].pc = "idle"
    /\ ghost.calls < MaxCalls
    /\ \E getFails \in BOOLEAN :
        LET me == callers[c]
            reads == op.name \in EnsuringOps /\ ~me.session.created
            found == reads /\ ~getFails /\ me.session.session_id \in DOMAIN table
            busy == \E d \in Callers \ {c} : callers[d].pc # "idle"
        IN /\ getFails => reads
           /\ callers' = [callers EXCEPT ![c] =
                  [session |-> [me.session EXCEPT !.created = @ \/ found],
                   pc |-> IF reads /\ ~found THEN "ensure_put" ELSE "body",
                   op |-> op]]
           /\ ghost' = [ghost EXCEPT !.calls = @ + 1,
                                     !.serial = @ /\ ~busy,
                                     !.faulted = @ \/ getFails]
           /\ ret' = IF found
                     THEN [op |-> "_ensure_created", caller |-> c, args |-> <<>>,
                           result |-> NoValue, before |-> table]
                     ELSE ret
    /\ UNCHANGED <<table, clock, runs, finalWrites, dispatchVars, consensusVars, cli, sideVars>>

\* _ensure_created sends put_item with the new item and marks the object.
EnsurePut(c) ==
    /\ callers[c].pc = "ensure_put"
    /\ table' = EnsureCreated(table, callers[c].session, clock + 1, TRUE)
    /\ clock' = clock + 1
    /\ callers' = [callers EXCEPT ![c].session.created = TRUE, ![c].pc = "body"]
    /\ ret' = [op |-> "_ensure_created", caller |-> c, args |-> <<>>,
               result |-> NoValue, before |-> table]
    /\ UNCHANGED <<ghost, runs, finalWrites, dispatchVars, consensusVars, cli, sideVars>>

\* add_items after _ensure_created: filter, then one update_item.
AddItemsBody(c) ==
    /\ callers[c].pc = "body"
    /\ callers[c].op.name = "add_items"
    /\ LET sid == callers[c].session.session_id
           items == callers[c].op.items
           filtered_items == FilterReasoning(items)
       IN /\ table' = IF filtered_items = <<>> THEN table
                       ELSE ListAppend(table, sid, ConvertFloatsList(filtered_items))
          /\ ret' = [op |-> "add_items", caller |-> c, args |-> items,
                     result |-> NoValue, before |-> table]
          /\ ghost' = [ghost EXCEPT !.expected = AbstractAppend(@, items),
                                    !.naive = @ \o items,
                                    !.added = Append(@, AbstractAppend(<<>>, items))]
    /\ callers' = [callers EXCEPT ![c].pc = "idle"]
    /\ UNCHANGED <<clock, runs, finalWrites, dispatchVars, consensusVars, cli, sideVars>>

\* get_items after _ensure_created: get_item projected to items; a
\* ClientError gives [].
GetItemsBody(c) ==
    /\ callers[c].pc = "body"
    /\ callers[c].op.name = "get_items"
    /\ \E readFails \in BOOLEAN :
        /\ ret' = [op |-> "get_items", caller |-> c, args |-> <<>>,
                   result |-> IF readFails THEN <<>>
                              ELSE StoredItems(table, callers[c].session.session_id),
                   before |-> table]
        /\ ghost' = [ghost EXCEPT !.faulted = @ \/ readFails]
    /\ callers' = [callers EXCEPT ![c].pc = "idle"]
    /\ UNCHANGED <<table, clock, runs, finalWrites, dispatchVars, consensusVars, cli, sideVars>>

\* pop_item: get_items, then REMOVE of the last index; None on no items.
PopItemBody(c) ==
    /\ callers[c].pc = "body"
    /\ callers[c].op.name = "pop_item"
    /\ \E readFails \in BOOLEAN :
        LET sid == callers[c].session.session_id
            items == IF readFails THEN <<>> ELSE StoredItems(table, sid)
        IN /\ table' = IF items = <<>> THEN table
                        ELSE RemoveAt(table, sid, Len(items) - 1)
           /\ ret' = [op |-> "pop_item", caller |-> c, args |-> <<>>,
                      result |-> IF items = <<>> THEN NoValue ELSE items[Len(items)],
                      before |-> table]
           /\ ghost' = [ghost EXCEPT !.expected = AbstractPop(@),
                                     !.naive = AbstractPop(@),
                                     !.onlyAppends = FALSE,
                                     !.faulted = @ \/ readFails]
    /\ callers' = [callers EXCEPT ![c].pc = "idle"]
    /\ UNCHANGED <<clock, runs, finalWrites, dispatchVars, consensusVars, cli, sideVars>>

\* clear_session: one update_item, SET #items = [] (no _ensure_created).
ClearSessionBody(c) ==
    /\ callers[c].pc = "body"
    /\ callers[c].op.name = "clear_session"
    /\ table' = UpdateItem(table, callers[c].session.session_id, [items |-> <<>>])
    /\ ret' = [op |-> "clear_session", caller |-> c, args |-> <<>>,
               result |-> NoValue, before |-> table]
    /\ ghost' = [ghost EXCEPT !.expected = <<>>, !.naive = <<>>, !.onlyAppends = FALSE]
    /\ callers' = [callers EXCEPT ![c].pc = "idle"]
    /\ UNCHANGED <<clock, runs, finalWrites, dispatchVars, consensusVars, cli, sideVars>>

\* The decision an earlier invocation returned.
EarlierDecision ==
    [request_type |-> "review", final_verdict |-> "go", confidence |-> 80,
     single_best_experiment |-> SomeExperiment, failed_agents |-> <<>>]

\* The record an earlier, completed invocation left under the session key.
EarlierItem ==
    UpdateItem(EnsureCreated(<<>>, NewCaller.session, 1, FALSE), SessionKey,
               [final_output |-> ConvertFloats(EarlierDecision),
                completed_at |-> IsoFormat(2)])

InitSession ==
    /\ table \in {<<>>, EarlierItem}
    /\ clock = 2
    /\ callers = [c \in Callers |-> NewCaller]
    /\ ghost = [calls |-> 0, expected |-> <<>>, naive |-> <<>>, added |-> <<>>,
                serial |-> TRUE, faulted |-> FALSE, onlyAppends |-> TRUE]
    /\ ret = NoValue
    /\ cli = NoValue
    /\ progress = NoValue
    /\ bg = NoValue
    /\ runs = <<>>
    /\ finalWrites = <<>>
    /\ toolPc = "idle"
    /\ tasks = [name \in BoardSet |-> IdleTask]
    /\ outputs = NoValue
    /\ opinionMap = NoValue
    /\ mode = "review"
    /\ consensus = NoValue

NextSession ==
    \/ \E c \in Callers, op \in StoreOps : CallStore(c, op)
    \/ \E c \in Callers : EnsurePut(c)
    \/ \E c \in Callers : AddItemsBody(c)
    \/ \E c \in Callers : GetItemsBody(c)
    \/ \E c \in Callers : PopItemBody(c)
    \/ \E c \in Callers : ClearSessionBody(c)

SpecSession == InitSession /\ [][NextSession]_vars

----------------------------------------------------------------------------
(* get_project_history over a table that sessions of several projects are  *)
(* created in.                                                             *)

\* How many records the table gets in a behaviour.
MaxSessions == 3

Projects == {"acme", "beta"}

\* The limits asked for: one, two, and settings.history_limit.
Limits == {1, 2, HistoryLimit}

\* A session of project pid is created, dt ticks after the last one:
\* DynamoDBSession(project_id=pid) and its first _ensure_created.
CreateSession(pid, dt) ==
    /\ Cardinality(DOMAIN table) < MaxSessions
    /\ LET sid == Cardinality(DOMAIN table) + 1
           session == [session_id |-> sid, project_id |-> pid,
                       metadata |-> [mode |-> "review"], created |-> FALSE]
       IN table' = EnsureCreated(table, session, clock + dt, FALSE)
    /\ clock' = clock + dt
    /\ UNCHANGED <<ret, ghost, callers, runs, finalWrites,
                   dispatchVars, consensusVars, cli, sideVars>>

\* clear_session on an identifier that has no record: update_item creates
\* an item with the key and items only, which the index does not hold.
ClearUnknown ==
    /\ Cardinality(DOMAIN table) < MaxSessions
    /\ table' = UpdateItem(table, Cardinality(DOMAIN table) + 1, [items |-> <<>>])
    /\ UNCHANGED <<clock, ret, ghost, callers, runs, finalWrites,
                   dispatchVars, consensusVars, cli, sideVars>>

\* DynamoDBSession.get_project_history(pid, limit); a ClientError of the
\* query gives [].
QueryHistory(pid, limit) ==
    /\ \E queryFails \in BOOLEAN :
        ret' = [op |-> "get_project_history", args |-> <<pid, limit>>,
                fault |-> queryFails,
                result |-> IF queryFails THEN <<>>
                           ELSE GetProjectHistory(table, pid, limit),
                before |-> table]
    /\ UNCHANGED <<table, clock, ghost, callers, runs, finalWrites,
                   dispatchVars, consensusVars, cli, sideVars>>

InitHistory ==
    /\ table = <<>>
    /\ clock = 1
    /\ ret = NoValue
    /\ ghost = NoValue
    /\ callers = <<>>
    /\ cli = NoValue
    /\ progress = NoValue
    /\ bg = NoValue
    /\ runs = <<>>
    /\ finalWrites = <<>>
    /\ toolPc = "idle"
    /\ tasks = [name \in BoardSet |-> IdleTask]
    /\ outputs = NoValue
    /\ opinionMap = NoValue
    /\ mode = "review"
    /\ consensus = NoValue

NextHistory ==
    \/ \E pid \in Projects, dt \in {0, 1} : CreateSession(pid, dt)
    \/ ClearUnknown
    \/ \E pid \in Projects, limit \in Limits : QueryHistory(pid, limit)

SpecHistory == InitHistory /\ [][NextHistory]_vars

----------------------------------------------------------------------------
(* Ratings: DynamoDBSession.save_rating and the rate command of the CLI.   *)

\* How many rating calls a behaviour has.
MaxRatings == 3

\* The ratings the rate command accepts.
RatingValues == {"correct", "partial", "wrong"}

\* The ratings and notes the model calls with: two accepted ratings and one
\* that is not; no notes or a note.
RatingArgs == {"correct", "wrong", "great"}

NotesArgs == {Null, "n1"}

\* The identifier of a session that was never created.
UnknownKey == 2

\* save_rating's update_item: rating and rated_at are set, rating_notes
\* only `if notes`.
SaveRatingItem(tbl, sid, rating, notes, now) ==
    UpdateItem(tbl, sid,
               IF notes # Null
               THEN [rating |-> rating, rated_at |-> IsoFormat(now), rating_notes |-> notes]
               ELSE [rating |-> rating, rated_at |-> IsoFormat(now)])

\* A lookup that answers with a record whatever the table holds.
GetSessionData_Any(tbl, sid, getFails) == [session_id |-> sid]

\* get_session_data: the item, or None when there is none or get_item
\* raised ClientError.
GetSessionData(tbl, sid, getFails) ==
    IF getFails \/ sid \notin DOMAIN tbl THEN NoValue ELSE tbl[sid]

RatingCount == IF "calls" \in DOMAIN ghost THEN ghost.calls ELSE 0

\* What the last rating call on each session supplied.
NoteLast(sid, rating, notes) ==
    [calls |-> RatingCount + 1,
     last |-> (sid :> [rating |-> rating, notes |-> notes]) @@ ghost.last]

\* session.save_rating(rating, notes) on DynamoDBSession(session_id=sid).
SaveRating(sid, rating, notes) ==
    /\ RatingCount < MaxRatings
    /\ table' = SaveRatingItem(table, sid, rating, notes, clock + 1)
    /\ clock' = clock + 1
    /\ ret' = [op |-> "save_rating", args |-> [sid |-> sid, rating |-> rating, notes |-> notes],
               result |-> "saved", accesses |-> 1, before |-> table]
    /\ ghost' = NoteLast(sid, rating, notes)
    /\ UNCHANGED <<callers, runs, finalWrites, dispatchVars, consensusVars, cli, sideVars>>

\* board rate <sid> --rating <rating> [--notes <notes>]
Rate(sid, rating, notes) ==
    /\ RatingCount < MaxRatings
    /\ \E getFails \in BOOLEAN :
        LET session_data == GetSessionData(table, sid, getFails)
        IN IF rating \notin RatingValues
           THEN /\ ret' = [op |-> "rate", args |-> [sid |-> sid, rating |-> rating, notes |-> notes],
                           result |-> "exit_1", accesses |-> 0, before |-> table]
                /\ ghost' = [ghost EXCEPT !.calls = @ + 1]
                /\ UNCHANGED <<table, clock>>
           ELSE IF session_data = NoValue
           THEN /\ ret' = [op |-> "rate", args |-> [sid |-> sid, rating |-> rating, notes |-> notes],
                           result |-> "exit_1", accesses |-> 1, before |-> table]
                /\ ghost' = [ghost EXCEPT !.calls = @ + 1]
                /\ UNCHANGED <<table, clock>>
           ELSE /\ table' = SaveRatingItem(table, sid, rating, notes, clock + 1)
                /\ clock' = clock + 1
                /\ ret' = [op |-> "rate", args |-> [sid |-> sid, rating |-> rating, notes |-> notes],
                           result |-> "saved", accesses |-> 2, before |-> table]
                /\ ghost' = NoteLast(sid, rating, notes)
    /\ UNCHANGED <<callers, runs, finalWrites, dispatchVars, consensusVars, cli, sideVars>>

InitRating ==
    /\ table = EarlierItem
    /\ clock = 2
    /\ ret = NoValue
    /\ ghost = [calls |-> 0, last |-> <<>>]
    /\ callers = <<>>
    /\ cli = NoValue
    /\ progress = NoValue
    /\ bg = NoValue
    /\ runs = <<>>
    /\ finalWrites = <<>>
    /\ toolPc = "idle"
    /\ tasks = [name \in BoardSet |-> IdleTask]
    /\ outputs = NoValue
    /\ opinionMap = NoValue
    /\ mode = "review"
    /\ consensus = NoValue

NextRating ==
    \/ \E sid \in {SessionKey, UnknownKey}, rating \in RatingArgs \cap RatingValues,
          notes \in NotesArgs : SaveRating(sid, rating, notes)
    \/ \E sid \in {SessionKey, UnknownKey}, rating \in RatingArgs,
          notes \in NotesArgs : Rate(sid, rating, notes)

SpecRating == InitRating /\ [][NextRating]_vars

----------------------------------------------------------------------------
(* A command of the CLI: BoardRequest(...) is built from the arguments and *)
(* handed to _validate_and_run, which calls run_board.  A process runs one *)
(* command.                                                                *)

\* Field(..., min_length=10) of request_text.
MinTextLen == 10

\* Field(default=14, ge=1, le=90) of since_days.
SinceDaysMin == 1

SinceDaysMax == 90

\* The keyword arguments the model builds requests from; the text is kept
\* by its length.
RawRequests ==
    [mode : {"review", "decide", "audit"},
     text_len : {MinTextLen - 1, MinTextLen},
     option_a : {Null, "A"},
     option_b : {Null, "B"},
     since_days : {SinceDaysMin - 1, SinceDaysMin, SinceDaysMax, SinceDaysMax + 1}]

\* BoardRequest(**raw): pydantic checks the declared constraints of the
\* fields, which are min_length of request_text and ge/le of since_days;
\* option_a and option_b are optional in every mode.
BoardRequestOf(raw) ==
    IF /\ raw.text_len >= MinTextLen
       /\ raw.since_days >= SinceDaysMin
       /\ raw.since_days <= SinceDaysMax
    THEN raw
    ELSE [raised |-> "ValidationError"]

\* The part of a request run_board_async looks at.
ToRequest(built) == [mode |-> built.mode, project_id |-> Null, context |-> Null]

\* The command builds its request.
Command(raw) ==
    /\ cli = NoValue
    /\ cli' = [raw |-> raw, built |-> BoardRequestOf(raw),
               pc |-> IF Raised(BoardRequestOf(raw)) THEN "rejected" ELSE "validated"]
    /\ UNCHANGED <<runnerVars, dispatchVars, consensusVars, storeVars, sideVars>>

\* _validate_and_run(request): run_board(request), nothing before it.
ValidateAndRun ==
    /\ cli # NoValue
    /\ cli.pc = "validated"
    /\ runs = <<>>
    /\ StartRun(ToRequest(cli.built))

InitCli ==
    /\ cli = NoValue
    /\ progress = NoValue
    /\ bg = NoValue
    /\ table = <<>>
    /\ clock = 0
    /\ runs = <<>>
    /\ finalWrites = <<>>
    /\ callers = <<>>
    /\ ghost = NoValue
    /\ ret = NoValue
    /\ toolPc = "idle"
    /\ tasks = [name \in BoardSet |-> IdleTask]
    /\ outputs = NoValue
    /\ opinionMap = NoValue
    /\ mode = "review"
    /\ consensus = NoValue

NextCli ==
    \/ \E raw \in RawRequests : Command(raw)
    \/ ValidateAndRun
    \/ ToolRunAll
    \/ OrchestratorDone
    \/ SaveFinalOutput

SpecCli == InitCli /\ [][NextCli]_vars

-----------------------------------------------------------------------------
(* The background tasks (utils/background.py) and the event loop of        *)
(* run_board (core/runner.py).                                             *)

\* How many functions decorated with fire_and_forget get called.
MaxTasks == 2

TaskIds == 1..MaxTasks

\* A decorated function that was not called yet.
NoTask == [st |-> "none", cancel |-> FALSE, cb |-> "none"]

\* asyncio.get_running_loop() succeeds: the caller runs inside the loop,
\* which run_until_complete keeps turning until its future's callback has
\* stopped it.
LoopRunning == bg.pc \in {"running", "draining", "stopping"}

\* task.done()
TaskDone(task) == task.st \in {"done", "failed", "cancelled"}

\* background_tasks_pending(): len(_background_tasks)
BackgroundTasksPending == Cardinality(bg.tracked)

\* run_board: a new event loop, then run_until_complete(run_board_async(..)).
RunBoard ==
    /\ bg.pc = "idle"
    /\ bg' = [bg EXCEPT !.pc = "running"]
    /\ UNCHANGED <<dispatchVars, consensusVars, runnerVars, storeVars, cli, progress>>

\* wrapper(*args): with a running loop, create_task and add the task to
\* _background_tasks in the same step, and register _on_done; without one,
\* asyncio.run(func(..)) to the end and return None.
FireAndForget(t) ==
    /\ bg.tasks[t].st = "none"
    /\ IF LoopRunning
       THEN bg' = [bg EXCEPT !.tasks[t].st = "pending",
                             !.tracked = @ \cup {t}]
       ELSE bg' = [bg EXCEPT !.tasks[t].st = "sync"]
    /\ UNCHANGED <<dispatchVars, consensusVars, runnerVars, storeVars, cli, progress>>

\* The task's coroutine ends, by returning or by raising (a task whose
\* cancellation was requested may still end this way when the coroutine
\* catches CancelledError); the task schedules its done callbacks with
\* call_soon, they do not run in this step.
TaskEnds(t, how) ==
    /\ LoopRunning
    /\ bg.tasks[t].st = "pending"
    /\ bg' = [bg EXCEPT !.tasks[t].st = how, !.tasks[t].cb = "scheduled"]
    /\ UNCHANGED <<dispatchVars, consensusVars, runnerVars, storeVars, cli, progress>>

\* The task's next step after task.cancel(): CancelledError ends it.
TaskCancelled(t) ==
    /\ LoopRunning
    /\ bg.tasks[t].st = "pending"
    /\ bg.tasks[t].cancel
    /\ bg' = [bg EXCEPT !.tasks[t].st = "cancelled", !.tasks[t].cb = "scheduled"]
    /\ UNCHANGED <<dispatchVars, consensusVars, runnerVars, storeVars, cli, progress>>

\* _on_done(t), run by the loop in a later iteration: discard first, then
\* t.exception() (which raises for a cancelled task, after the discard).
OnDone(t) ==
    /\ LoopRunning
    /\ bg.tasks[t].cb = "scheduled"
    /\ bg' = [bg EXCEPT !.tasks[t].cb = "ran", !.tracked = @ \ {t}]
    /\ UNCHANGED <<dispatchVars, consensusVars, runnerVars, storeVars, cli, progress>>

\* run_board_async returned, and run_board calls
\* wait_for_background_tasks(timeout=10.0): return at once when
\* _background_tasks is empty, otherwise asyncio.wait on the tasks the set
\* holds at this moment.
AsyncReturns ==
    /\ bg.pc = "running"
    /\ bg' = IF bg.tracked = {}
             THEN [bg EXCEPT !.pc = "stopping", !.outcome = "returned"]
             ELSE [bg EXCEPT !.pc = "draining", !.waiting = bg.tracked]
    /\ UNCHANGED <<dispatchVars, consensusVars, runnerVars, storeVars, cli, progress>>

\* run_board_async raised: run_until_complete re-raises, the statements
\* after it in the try block are skipped, the finally block runs.
AsyncRaises ==
    /\ bg.pc = "running"
    /\ bg' = [bg EXCEPT !.pc = "stopping", !.outcome = "raised"]
    /\ UNCHANGED <<dispatchVars, consensusVars, runnerVars, storeVars, cli, progress>>

\* asyncio.wait(.., return_when=ALL_COMPLETED) returns with nothing
\* pending: every task it waits on is done, and the callback asyncio.wait
\* added to each ran, after the _on_done registered before it.
WaitAllDone ==
    /\ bg.pc = "draining"
    /\ \A t \in bg.waiting : TaskDone(bg.tasks[t]) /\ bg.tasks[t].cb = "ran"
    /\ bg' = [bg EXCEPT !.pc = "stopping", !.outcome = "returned"]
    /\ UNCHANGED <<dispatchVars, consensusVars, runnerVars, storeVars, cli, progress>>

\* asyncio.wait returns at the timeout with tasks pending: task.cancel()
\* for each, and wait_for_background_tasks returns without awaiting them.
WaitTimeout ==
    /\ bg.pc = "draining"
    /\ \E t \in bg.waiting : ~TaskDone(bg.tasks[t])
    /\ bg' = [bg EXCEPT !.pc = "stopping", !.outcome = "returned",
                        !.tasks = [t \in TaskIds |->
                            IF t \in bg.waiting /\ ~TaskDone(bg.tasks[t])
                            THEN [bg.tasks[t] EXCEPT !.cancel = TRUE]
                            ELSE bg.tasks[t]]]
    /\ UNCHANGED <<dispatchVars, consensusVars, runnerVars, storeVars, cli, progress>>

\* finally: loop.close(). Nothing the loop still holds runs after it.
CloseLoop ==
    /\ bg.pc = "stopping"
    /\ bg' = [bg EXCEPT !.pc = "closed"]
    /\ UNCHANGED <<dispatchVars, consensusVars, runnerVars, storeVars, cli, progress>>

InitBackground ==
    /\ bg = [pc |-> "idle", outcome |-> "none", tracked |-> {}, waiting |-> {},
             tasks |-> [t \in TaskIds |-> NoTask]]
    /\ progress = NoValue
    /\ cli = NoValue
    /\ table = <<>>
    /\ clock = 0
    /\ runs = <<>>
    /\ finalWrites = <<>>
    /\ callers = <<>>
    /\ ghost = NoValue
    /\ ret = NoValue
    /\ toolPc = "idle"
    /\ tasks = [name \in BoardSet |-> IdleTask]
    /\ outputs = NoValue
    /\ opinionMap = NoValue
    /\ mode = "review"
    /\ consensus = NoValue

NextBackground ==
    \/ RunBoard
    \/ \E t \in TaskIds : FireAndForget(t)
    \/ \E t \in TaskIds, how \in {"done", "failed"} : TaskEnds(t, how)
    \/ \E t \in TaskIds : TaskCancelled(t)
    \/ \E t \in TaskIds : OnDone(t)
    \/ AsyncReturns
    \/ AsyncRaises
    \/ WaitAllDone
    \/ WaitTimeout
    \/ CloseLoop

SpecBackground == InitBackground /\ [][NextBackground]_vars

-----------------------------------------------------------------------------
(* The progress tracker: BoardProgress and the event loop of               *)
(* run_board_async over result.stream_events() (core/runner.py).           *)

\* How many stream events one orchestrator run delivers.
MaxEvents == 4

\* config.codename.lower(), the part of a tool's name after "consult_".
Lower(codename) ==
    CASE codename = "Lynx" -> "lynx"
      [] codename = "Wildfire" -> "wildfire"
      [] codename = "Bedrock" -> "bedrock"
      [] codename = "Leverage" -> "leverage"
      [] codename = "Sentinel" -> "sentinel"
      [] codename = "Prism" -> "prism"
      [] codename = "Razor" -> "razor"

\* str.title() of a lower-case word: its first letter in upper case.
Title(word) ==
    CASE word = "lynx" -> "Lynx"
      [] word = "wildfire" -> "Wildfire"
      [] word = "bedrock" -> "Bedrock"
      [] word = "leverage" -> "Leverage"
      [] word = "sentinel" -> "Sentinel"
      [] word = "prism" -> "Prism"
      [] word = "razor" -> "Razor"

\* The orchestrator's tools by name: run_all_specialists, and consult_<x>
\* of the specialists the model lets the orchestrator consult one by one.
RunAllTool == [prefix |-> "", rest |-> "run_all_specialists"]

ConsultTool(codename) == [prefix |-> "consult_", rest |-> Lower(codename)]

Consulted == {Board[1], Purist}

Tools == {RunAllTool} \cup {ConsultTool(name) : name \in Consulted}

\* The name an output item shows when it has no `name` attribute:
\* getattr(item, "name", None) or "".
NoName == [prefix |-> "", rest |-> ""]

\* tool_name.replace("consult_", "").title()
Codename(tool) == Title(tool.rest)

\* The set run_board_async assigns to specialists_called.
AllSpecialists == BoardSet

\* BoardProgress(): the fields the event loop writes.
NewProgress ==
    [phase |-> "init", specialists_called |-> {}, specialists_done |-> {}]

\* on_progress: None (show_progress=False), a callback that returns, or a
\* callback that may raise.
Observers == {"none", "quiet", "raising"}

\* if on_progress: on_progress(progress) -- whether the call raises.
ObserverRaises(observer) == IF observer = "raising" THEN BOOLEAN ELSE {FALSE}

\* The fields of `progress` after the handler of a tool_call_item, with a
\* consult call replacing the set instead of adding to it.
OnToolCall_Replace(p, tool) ==
    IF tool = RunAllTool
    THEN [p EXCEPT !.phase = "calling_specialists",
                   !.specialists_called = AllSpecialists]
    ELSE [p EXCEPT !.specialists_called = {Codename(tool)}]

\* tool_call_item: run_all_specialists marks every specialist called and
\* moves the phase; consult_<x> adds x to the called set.
OnToolCall(p, tool) ==
    IF tool = RunAllTool
    THEN [p EXCEPT !.phase = "calling_specialists",
                   !.specialists_called = AllSpecialists]
    ELSE [p EXCEPT !.specialists_called = @ \cup {Codename(tool)}]

\* tool_call_output_item: run_all_specialists copies the called set to the
\* done set and moves the phase; consult_<x> adds x to the done set; any
\* other name changes nothing.
OnToolOutput(p, name) ==
    IF name = RunAllTool
    THEN [p EXCEPT !.phase = "synthesizing",
                   !.specialists_done = p.specialists_called]
    ELSE IF name.prefix = "consult_"
    THEN [p EXCEPT !.specialists_done = @ \cup {Codename(name)}]
    ELSE p

\* agent_updated_stream_event for the orchestrator.
OnAgentUpdated(p) ==
    [p EXCEPT !.phase = IF p.specialists_done # {} THEN "synthesizing"
                        ELSE "reasoning"]

\* The tracker's fields of the state, by themselves.
Fields(p) ==
    [phase |-> p.phase, specialists_called |-> p.specialists_called,
     specialists_done |-> p.specialists_done]

\* One handler of the loop: the fields become `new`, then on_progress is
\* called when `notified`; when it raises, the exception leaves
\* run_board_async.
Handle(new, notified, event, called) ==
    \E raises \in ObserverRaises(progress.observer) :
        progress' = [progress EXCEPT
                        !.phase = new.phase,
                        !.specialists_called = new.specialists_called,
                        !.specialists_done = new.specialists_done,
                        !.before = Fields(progress),
                        !.last = event,
                        !.toolsCalled = called,
                        !.n = @ + 1,
                        !.pc = IF notified /\ raises /\ progress.observer # "none"
                               THEN "raised" ELSE "streaming",
                        !.result = IF notified /\ raises /\ progress.observer # "none"
                                   THEN [kind |-> "raised"] ELSE NoValue]

\* run_board_async up to Runner.run_streamed: phase "reasoning", first
\* call of on_progress.
StartStream ==
    /\ progress.pc = "start"
    /\ Handle([Fields(progress) EXCEPT !.phase = "reasoning"], TRUE, "start", {})
    /\ UNCHANGED <<dispatchVars, consensusVars, runnerVars, storeVars, cli, bg>>

\* The first event of the stream: the run starts with the orchestrator.
AgentUpdated ==
    /\ progress.pc = "streaming"
    /\ progress.n = 1
    /\ Handle(OnAgentUpdated(progress), TRUE, "agent_updated", progress.toolsCalled)
    /\ UNCHANGED <<dispatchVars, consensusVars, runnerVars, storeVars, cli, bg>>

ToolCall(tool) ==
    /\ progress.pc = "streaming"
    /\ progress.n <= MaxEvents
    /\ Handle(OnToolCall(progress, tool), TRUE, "tool_call",
              progress.toolsCalled \cup {tool})
    /\ UNCHANGED <<dispatchVars, consensusVars, runnerVars, storeVars, cli, bg>>

\* The output item of a tool that was called; `named` tells whether the
\* item shows the tool's name.
ToolOutput(tool, named) ==
    /\ progress.pc = "streaming"
    /\ progress.n <= MaxEvents
    /\ tool \in progress.toolsCalled
    /\ LET name == IF named THEN tool ELSE NoName
       IN Handle(OnToolOutput(progress, name), name # NoName, "tool_output",
                 progress.toolsCalled)
    /\ UNCHANGED <<dispatchVars, consensusVars, runnerVars, storeVars, cli, bg>>

\* message_output_item
MessageOutput ==
    /\ progress.pc = "streaming"
    /\ progress.n <= MaxEvents
    /\ Handle([Fields(progress) EXCEPT !.phase = "synthesizing"], TRUE,
              "message_output", progress.toolsCalled)
    /\ UNCHANGED <<dispatchVars, consensusVars, runnerVars, storeVars, cli, bg>>

\* raw_response_event: the text grows, on_progress is called.
RawResponse ==
    /\ progress.pc = "streaming"
    /\ progress.n <= MaxEvents
    /\ Handle(Fields(progress), TRUE, "raw_response", progress.toolsCalled)
    /\ UNCHANGED <<dispatchVars, consensusVars, runnerVars, storeVars, cli, bg>>

\* The stream ends: phase "done", last call of on_progress, then the final
\* output is taken from the result, saved to the session and returned.
StreamEnds ==
    /\ progress.pc = "streaming"
    /\ \E raises \in ObserverRaises(progress.observer) :
        LET session == progress.session
            created == EnsureCreated(table, session, clock + 1, FALSE)
            saved == UpdateItem(created, session.session_id,
                        [final_output |-> ConvertFloats(progress.output),
                         completed_at |-> IsoFormat(clock + 2)])
        IN IF raises
           THEN /\ progress' = [progress EXCEPT !.phase = "done",
                                   !.before = Fields(progress), !.last = "end",
                                   !.pc = "raised", !.result = [kind |-> "raised"]]
                /\ UNCHANGED <<table, clock>>
           ELSE /\ progress' = [progress EXCEPT !.phase = "done",
                                   !.before = Fields(progress), !.last = "end",
                                   !.pc = "returned",
                                   !.result = [kind |-> "returned",
                                               decision |-> progress.output,
                                               session_id |-> session.session_id]]
                /\ table' = saved
                /\ clock' = clock + 2
    /\ UNCHANGED <<runs, finalWrites, dispatchVars, consensusVars, storeVars, cli, bg>>

InitTracker ==
    /\ progress \in
         {[phase |-> NewProgress.phase,
           specialists_called |-> NewProgress.specialists_called,
           specialists_done |-> NewProgress.specialists_done,
           before |-> NewProgress, last |-> "none", n |-> 0, pc |-> "start",
           toolsCalled |-> {}, observer |-> observer, output |-> output,
           session |-> [session_id |-> 1, project_id |-> DefaultProject,
                        metadata |-> [mode |-> request.mode], created |-> FALSE],
           result |-> NoValue] :
              observer \in Observers,
              output \in UNION {OrchestratorOutputs(r) : r \in Requests},
              request \in Requests}
    /\ progress.output.request_type = progress.session.metadata.mode
    /\ bg = NoValue
    /\ cli = NoValue
    /\ table = <<>>
    /\ clock = 0
    /\ runs = <<>>
    /\ finalWrites = <<>>
    /\ callers = <<>>
    /\ ghost = NoValue
    /\ ret = NoValue
    /\ toolPc = "idle"
    /\ tasks = [name \in BoardSet |-> IdleTask]
    /\ outputs = NoValue
    /\ opinionMap = NoValue
    /\ mode = "review"
    /\ consensus = NoValue

NextTracker ==
    \/ StartStream
    \/ AgentUpdated
    \/ \E tool \in Tools : ToolCall(tool)
    \/ \E tool \in Tools, named \in BOOLEAN : ToolOutput(tool, named)
    \/ MessageOutput
    \/ RawResponse
    \/ StreamEnds

SpecTracker == InitTracker /\ [][NextTracker]_vars

-----------------------------------------------------------------------------
(* The aggregation helpers: aggregate_actions and select_best_experiment.  *)
(* tests/test_consensus.py imports them from keystone_agent.core.consensus,*)
(* which the package does not contain, so they are written from section    *)
(* 4.3 of the specification and agree with the tests of                    *)
(* TestAggregateActions and TestSelectBestExperiment.                      *)

\* How many actions the aggregated list holds at most.
MaxActions == 3

\* The members whose opinions the helpers are explored with, in roster
\* order: two standard specialists and the purist.
AggBoard == <<Board[1], Board[2], Purist>>

\* An action is its text, word by word, in lower case.
CommonWords == {"build", "ship", "run", "post", "on", "define", "interview",
                "measure", "a", "the"}

\* The salient keywords of an action: its words that are not common ones.
Keywords(action) == {action[i] : i \in 1..Len(action)} \ CommonWords

\* Two actions are near-duplicates when they are the same text or share a
\* salient keyword.
NearDuplicate(a, b) == a = b \/ Keywords(a) \cap Keywords(b) # {}

\* The action lists a member may give: three actions (next_3_actions), two
\* for the purist (next_2_actions).
ActionLists(name) ==
    IF name = Purist
    THEN << << <<"define", "icp">>, <<"ship", "the", "mvp">> >>,
            << <<"run", "test">>, <<"define", "pricing">> >> >>
    ELSE << << <<"interview", "users">>, <<"build", "mvp">>, <<"run", "test">> >>,
            << <<"post", "on", "reddit">>, <<"build", "a", "mvp">>,
               <<"measure", "signups">> >>,
            << <<"build", "mvp">>, <<"ship", "the", "mvp">>,
               <<"interview", "users">> >> >>

\* The experiments a standard member may propose.  A success metric is its
\* text token by token; a timebox is its text, a number and a unit.
Experiments ==
    << [hypothesis |-> "h", test |-> "t",
        success_metric |-> <<"users", "like", "it">>, timebox |-> <<3, "days">>],
       [hypothesis |-> "h", test |-> "t",
        success_metric |-> <<"50%", "conversion">>, timebox |-> <<1, "month">>],
       [hypothesis |-> "h", test |-> "t",
        success_metric |-> <<"5", "users", "pay">>, timebox |-> <<10, "days">>],
       [hypothesis |-> "h", test |-> "t",
        success_metric |-> <<"20", "signups">>, timebox |-> <<1, "week">>] >>

\* The entries a member's place in the map may hold: a Failure, or an
\* opinion with one of its action lists and, for a standard member, one of
\* the experiments or none.
AggChoices(name) ==
    {<<"failed", 0, 0>>} \cup
    ({"opinion"} \X (1..Len(ActionLists(name)))
                 \X (IF name = Purist THEN {0} ELSE 0..Len(Experiments)))

AggEntry(name, choice) ==
    IF choice[1] = "failed"
    THEN Failure(name, "exception", 150)
    ELSE IF name = Purist
    THEN [agent_name |-> name, next_2_actions |-> ActionLists(name)[choice[2]]]
    ELSE IF choice[3] = 0
    THEN [agent_name |-> name, next_3_actions |-> ActionLists(name)[choice[2]]]
    ELSE [agent_name |-> name, next_3_actions |-> ActionLists(name)[choice[2]],
          one_experiment |-> Experiments[choice[3]]]

\* The actions of one entry: none for a Failure, the purist's two, a
\* standard member's three.
ActionsOf(entry) ==
    IF IsFailure(entry) THEN <<>>
    ELSE IF "next_2_actions" \in DOMAIN entry THEN entry.next_2_actions
    ELSE entry.next_3_actions

\* All actions of the map, walking the opinions in roster order.
RECURSIVE ActionPool(_, _)
ActionPool(m, roster) ==
    IF roster = <<>> THEN <<>>
    ELSE (IF roster[1] \in DOMAIN m THEN ActionsOf(m[roster[1]]) ELSE <<>>)
         \o ActionPool(m, Tail(roster))

\* The walk with no test for near-duplicates.
RECURSIVE Collect_NoDedup(_, _)
Collect_NoDedup(pool, kept) ==
    IF pool = <<>> \/ Len(kept) >= MaxActions THEN kept
    ELSE Collect_NoDedup(Tail(pool), Append(kept, pool[1]))

\* The walk: an action is appended unless it is a near-duplicate of one
\* already selected; it stops once MaxActions are collected.
RECURSIVE Collect(_, _)
Collect(pool, kept) ==
    IF pool = <<>> \/ Len(kept) >= MaxActions THEN kept
    ELSE IF \E i \in 1..Len(kept) : NearDuplicate(kept[i], pool[1])
    THEN Collect(Tail(pool), kept)
    ELSE Collect(Tail(pool), Append(kept, pool[1]))

\* The aggregation with no test for near-duplicates.
AggregateActions_NoDedup(m) == Collect_NoDedup(ActionPool(m, Roster), <<>>)

\* aggregate_actions: the walk over the pool, from an empty list.
AggregateActions(m) == Collect(ActionPool(m, Roster), <<>>)

\* A token that is a number or a percentage.
NumericTokens == {"5", "20", "50%"}

\* The metric is quantitative: it contains a numeric or percentage token.
Quantitative(metric) == \E i \in 1..Len(metric) : metric[i] \in NumericTokens

UnitRank(unit) ==
    CASE unit \in {"day", "days"} -> 1
      [] unit \in {"week", "weeks"} -> 2
      [] unit \in {"month", "months"} -> 3

\* a is preferred to b: a quantitative metric before one that is not; then
\* the shorter timebox, days before weeks before months, and the smaller
\* number within a unit.
Preferred(a, b) ==
    \/ Quantitative(a.success_metric) /\ ~Quantitative(b.success_metric)
    \/ /\ Quantitative(a.success_metric) = Quantitative(b.success_metric)
       /\ \/ UnitRank(a.timebox[2]) < UnitRank(b.timebox[2])
          \/ /\ UnitRank(a.timebox[2]) = UnitRank(b.timebox[2])
             /\ a.timebox[1] < b.timebox[1]

\* The experiment returned when no opinion contributes one.
DefaultExperiment ==
    [name |-> "Validate Core Assumption", hypothesis |-> "generic",
     test |-> "generic", success_metric |-> <<"generic">>,
     timebox |-> <<1, "week">>]

\* The members that contribute an experiment, in roster order.
Proposers(m) ==
    SelectSeq(Roster, LAMBDA name :
        /\ name \in DOMAIN m
        /\ ~IsFailure(m[name])
        /\ "one_experiment" \in DOMAIN m[name])

RECURSIVE Best(_, _, _)
Best(m, names, best) ==
    IF names = <<>> THEN best
    ELSE Best(m, Tail(names),
              IF Preferred(m[names[1]].one_experiment, best)
              THEN m[names[1]].one_experiment ELSE best)

SelectBestExperiment(m) ==
    LET names == Proposers(m)
    IN IF names = <<>> THEN DefaultExperiment
       ELSE Best(m, Tail(names), m[names[1]].one_experiment)

\* aggregate_actions(outputs)
CallAggregateActions ==
    /\ "actions" \notin DOMAIN ret
    /\ ret' = [actions |-> AggregateActions(opinionMap)] @@ ret
    /\ UNCHANGED <<opinionMap, mode, consensus, dispatchVars, runnerVars,
                   callers, ghost, cli, sideVars>>

\* select_best_experiment(outputs)
CallSelectBestExperiment ==
    /\ "experiment" \notin DOMAIN ret
    /\ ret' = [experiment |-> SelectBestExperiment(opinionMap)] @@ ret
    /\ UNCHANGED <<opinionMap, mode, consensus, dispatchVars, runnerVars,
                   callers, ghost, cli, sideVars>>

InitAggregation ==
    /\ \E pick \in [{AggBoard[i] : i \in 1..Len(AggBoard)} -> UNION {AggChoices(n) : n \in BoardSet}] :
          /\ \A n \in DOMAIN pick : pick[n] \in AggChoices(n)
          /\ opinionMap = [n \in DOMAIN pick |-> AggEntry(n, pick[n])]
    /\ ret = [call |-> "aggregation"]
    /\ mode = "review"
    /\ consensus = NoValue
    /\ toolPc = "idle"
    /\ tasks = [name \in BoardSet |-> IdleTask]
    /\ outputs = NoValue
    /\ table = <<>>
    /\ clock = 0
    /\ runs = <<>>
    /\ finalWrites = <<>>
    /\ callers = <<>>
    /\ ghost = NoValue
    /\ cli = NoValue
    /\ progress = NoValue
    /\ bg = NoValue

NextAggregation ==
    \/ CallAggregateActions
    \/ CallSelectBestExperiment

SpecAggregation == InitAggregation /\ [][NextAggregation]_vars

-----------------------------------------------------------------------------
(* run_all_specialists_tool: the input it builds for the specialists from  *)
(* its own (agents/tools.py).                                              *)

\* AllSpecialistsInput, as the orchestrator may fill it in.  An empty text
\* is a field left at its default.
ToolInputs ==
    [request_text : {"r"}, mode : {"review", "decide"},
     orchestrator_guidance : {"", "g"}, project_history : {"", "h1"},
     option_a : {"", "a"}, option_b : {"", "b"}]

\* The parts of a context in which the history is passed on as well.
ContextParts_WithHistory(input) ==
    (IF input.orchestrator_guidance # ""
     THEN <<[label |-> "ORCHESTRATOR GUIDANCE:", text |-> input.orchestrator_guidance]>>
     ELSE <<>>)
    \o (IF input.project_history # ""
        THEN <<[label |-> "History:", text |-> input.project_history]>> ELSE <<>>)
    \o (IF input.option_a # ""
        THEN <<[label |-> "Option A:", text |-> input.option_a]>> ELSE <<>>)
    \o (IF input.option_b # ""
        THEN <<[label |-> "Option B:", text |-> input.option_b]>> ELSE <<>>)

\* context_parts: the guidance and the two options, each when not empty.
ContextParts(input) ==
    (IF input.orchestrator_guidance # ""
     THEN <<[label |-> "ORCHESTRATOR GUIDANCE:", text |-> input.orchestrator_guidance]>>
     ELSE <<>>)
    \o (IF input.option_a # ""
        THEN <<[label |-> "Option A:", text |-> input.option_a]>> ELSE <<>>)
    \o (IF input.option_b # ""
        THEN <<[label |-> "Option B:", text |-> input.option_b]>> ELSE <<>>)

\* SpecialistRequestInput(request_text, mode, context="\n".join(parts))
SpecialistInput(input) ==
    [request_text |-> input.request_text, mode |-> input.mode,
     context |-> ContextParts(input)]

\* The tool is called with `input`: one SpecialistRequestInput is built and
\* a coroutine with it is created for every agent; gather schedules them.
CallRunAllWith(input) ==
    /\ toolPc \in {"idle", "returned"}
    /\ toolPc' = "gathering"
    /\ tasks' = [name \in BoardSet |-> RunningTask]
    /\ outputs' = NoValue
    /\ ret' = [call |-> "run_all_specialists", input |-> input,
               specialist_input |-> SpecialistInput(input),
               sent |-> [name \in BoardSet |-> NoValue]]
    /\ UNCHANGED <<consensusVars, runnerVars, callers, ghost, cli, sideVars>>

\* The first step of one agent's coroutine: run_specialist_agent hands
\* json.dumps(input_data.model_dump()) to Runner.run for that agent.
StartAgent(name) ==
    /\ toolPc = "gathering"
    /\ ret.sent[name] = NoValue
    /\ ret' = [ret EXCEPT !.sent[name] = ret.specialist_input]
    /\ UNCHANGED <<dispatchVars, consensusVars, runnerVars, callers, ghost, cli, sideVars>>

NextToolInput ==
    \/ \E input \in ToolInputs : CallRunAllWith(input)
    \/ \E name \in BoardSet : StartAgent(name)

SpecToolInput == InitDispatch /\ [][NextToolInput]_vars

-----------------------------------------------------------------------------
(* The store's operations issued through session objects in any order      *)
(* (storage/session.py), one call at a time and with no store fault.       *)

\* How many operations are issued.
MaxOps == 4

\* The session objects: DynamoDBSession(session_id, project_id="acme").
SessionIds == {SessionKey, UnknownKey}

SessionObject(sid) ==
    [session_id |-> sid, project_id |-> "acme",
     metadata |-> [mode |-> "review"], created |-> FALSE]

\* await self._ensure_created() of the session object `sid`, at time `now`.
Ensured(sid, now) == EnsureCreated(table, callers[sid], now, FALSE)

\* One operation is over: the object is marked created when the operation
\* began with _ensure_created, and the clock has moved.
Issued(sid, ensures) ==
    /\ ghost.ops < MaxOps
    /\ ghost' = [ghost EXCEPT !.ops = @ + 1]
    /\ callers' = [callers EXCEPT ![sid].created = @ \/ ensures]
    /\ clock' = clock + 1
    /\ UNCHANGED <<ret, runs, finalWrites, dispatchVars, consensusVars, cli, sideVars>>

\* get_items(): _ensure_created, then a read.
SessionGetItems(sid) ==
    /\ table' = Ensured(sid, clock + 1)
    /\ Issued(sid, TRUE)

\* add_items(items): _ensure_created, then list_append of the stored form.
SessionAddItems(sid, items) ==
    /\ table' = IF FilterReasoning(items) = <<>> THEN Ensured(sid, clock + 1)
                ELSE ListAppend(Ensured(sid, clock + 1), sid,
                                ConvertFloatsList(FilterReasoning(items)))
    /\ Issued(sid, TRUE)

\* pop_item(): get_items, then REMOVE of the last place when there is one.
SessionPopItem(sid) ==
    /\ LET ensured == Ensured(sid, clock + 1)
           n == Len(StoredItems(ensured, sid))
       IN table' = IF n = 0 THEN ensured ELSE RemoveAt(ensured, sid, n - 1)
    /\ Issued(sid, TRUE)

\* clear_session(): update_item alone, no _ensure_created before it.
SessionClear(sid) ==
    /\ table' = UpdateItem(table, sid, [items |-> <<>>])
    /\ Issued(sid, FALSE)

\* save_final_output(output): _ensure_created, then update_item.
SessionSaveFinalOutput(sid) ==
    /\ table' = UpdateItem(Ensured(sid, clock + 1), sid,
                    [final_output |-> ConvertFloats(EarlierDecision),
                     completed_at |-> IsoFormat(clock + 1)])
    /\ Issued(sid, TRUE)

\* save_rating(rating): update_item alone, no _ensure_created before it.
SessionSaveRating(sid, rating) ==
    /\ table' = SaveRatingItem(table, sid, rating, Null, clock + 1)
    /\ Issued(sid, FALSE)

InitRecords ==
    /\ table = <<>>
    /\ clock = 0
    /\ callers = [sid \in SessionIds |-> SessionObject(sid)]
    /\ ghost = [ops |-> 0]
    /\ ret = NoValue
    /\ cli = NoValue
    /\ progress = NoValue
    /\ bg = NoValue
    /\ runs = <<>>
    /\ finalWrites = <<>>
    /\ toolPc = "idle"
    /\ tasks = [name \in BoardSet |-> IdleTask]
    /\ outputs = NoValue
    /\ opinionMap = NoValue
    /\ mode = "review"
    /\ consensus = NoValue

NextRecords ==
    \/ \E sid \in SessionIds : SessionGetItems(sid)
    \/ \E sid \in SessionIds, items \in ItemLists : SessionAddItems(sid, items)
    \/ \E sid \in SessionIds : SessionPopItem(sid)
    \/ \E sid \in SessionIds : SessionClear(sid)
    \/ \E sid \in SessionIds : SessionSaveFinalOutput(sid)
    \/ \E sid \in SessionIds, rating \in RatingValues : SessionSaveRating(sid, rating)

SpecRecords == InitRecords /\ [][NextRecords]_vars

----------------------------------------------------------------------------
(* The fan-out's claims.                                                   *)

Failed(oc) == oc.kind # "output"

\* C1: the run-all fan-out is a barrier with full coverage: when it has
\* returned, every agent's call has settled, and the map it returned has
\* exactly the board's codenames as its keys.
C1_BarrierFullCoverage ==
    toolPc = "returned" =>
        /\ \A name \in BoardSet : tasks[name].state = "done"
        /\ DOMAIN outputs = BoardSet

\* The fan-out has returned a map that mixes opinions and failures.
C1_Witness ==
    /\ toolPc = "returned"
    /\ \E a, b \in BoardSet : IsFailure(outputs[a]) /\ ~IsFailure(outputs[b])

\* C2 as stated: the fan-out does not raise, a failing agent's entry is a
\* Failure (marker, identity, a summary of at most 200 characters), and any
\* other agent's entry is exactly the output that agent produced.
C2_EntryIsOutputAsProduced ==
    /\ toolPc # "raised"
    /\ toolPc = "returned" =>
        \A name \in BoardSet :
            IF Failed(tasks[name].outcome)
            THEN /\ IsFailure(outputs[name])
                 /\ outputs[name].failed
                 /\ outputs[name].agent_name = name
                 /\ outputs[name].error.len <= ErrLimit
            ELSE outputs[name] = tasks[name].outcome.value

\* C2 as amended: ..., and any other agent's entry is the output that agent
\* produced with its agent_name set to the agent's codename; no entry
\* depends on what the other agents did.
C2_FailuresIsolated ==
    /\ toolPc # "raised"
    /\ toolPc = "returned" =>
        \A name \in BoardSet :
            IF Failed(tasks[name].outcome)
            THEN /\ IsFailure(outputs[name])
                 /\ outputs[name].failed
                 /\ outputs[name].agent_name = name
                 /\ outputs[name].error.len <= ErrLimit
            ELSE outputs[name] = [tasks[name].outcome.value EXCEPT !.agent_name = name]

\* The fan-out has returned after one agent raised with a message longer
\* than the limit, one produced no output and one produced an opinion.
C2_Witness ==
    /\ toolPc = "returned"
    /\ \E a, b, c \in BoardSet :
        /\ tasks[a].outcome.kind = "raise" /\ tasks[a].outcome.msglen > ErrLimit
        /\ tasks[b].outcome.kind = "none"
        /\ tasks[c].outcome.kind = "output"
        /\ ~IsFailure(outputs[c])

----------------------------------------------------------------------------
(* The consensus ladder's claims.  The counts are taken from the entries'  *)
(* own verdict texts.                                                      *)

Evaluated == consensus # NoValue

Opinions == {k \in BoardSet : ~IsFailure(opinionMap[k])}

NoGoVoters == {k \in Opinions : opinionMap[k].verdict = "no_go"}

GoVoters == {k \in Opinions : opinionMap[k].verdict \in {"go", "GO"}}

VotersFor(v) == {k \in Opinions : opinionMap[k].verdict = v}

\* The equality of two fractions.
RatEq(a, b) == a.num * b.den = b.num * a.den

PuristObjects ==
    /\ Purist \in Opinions
    /\ opinionMap[Purist].verdict \in {"CUT", "REFRAME"}

GoOthersHigh == {k \in GoVoters \ {Purist} : opinionMap[k].confidence >= 75}

Overridden == 2 * Cardinality(GoOthersHigh) > Cardinality(GoVoters \ {Purist})

GoStrictlyFirst ==
    \A v \in (Verdict \cup PuristVerdict) \ {"go", "GO"} :
        Cardinality(GoVoters) > Cardinality(VotersFor(v))

\* C4: when at least 2 non-failed opinions voted NO_GO, whatever the other
\* entries are, the verdict is NO_GO and the first reason states the exact
\* count N of NO_GO voters.
C4_RejectionThreshold ==
    (Evaluated /\ Cardinality(NoGoVoters) >= 2) =>
        /\ consensus.verdict = "NO_GO"
        /\ consensus.reasons[1] = [kind |-> "voted_no_go", count |-> Cardinality(NoGoVoters)]

\* Two NO_GO votes against two GO votes and a purist CUT: evaluated NO_GO.
C4_Witness ==
    /\ Evaluated
    /\ Cardinality(NoGoVoters) = 2
    /\ Cardinality(GoVoters) = 2
    /\ PuristObjects
    /\ consensus.verdict = "NO_GO"

\* C5: when not every entry failed, fewer than 2 opinions voted NO_GO and
\* the purist's opinion is CUT or REFRAME, the verdict is PIVOT with a reason
\* naming the purist, unless strictly more than half of the other GO voters
\* have a confidence of at least 0.75; then it is neither PIVOT nor NO_GO.
C5_PuristVeto ==
    (Evaluated /\ Opinions # {} /\ Cardinality(NoGoVoters) < 2 /\ PuristObjects) =>
        IF Overridden
        THEN consensus.verdict \notin {"PIVOT", "NO_GO"}
        ELSE /\ consensus.verdict = "PIVOT"
             /\ \E i \in 1..Len(consensus.reasons) :
                    /\ consensus.reasons[i].kind = "purist_veto"
                    /\ consensus.reasons[i].who = Purist

\* The veto stands when exactly half of the other GO voters reach 0.75.
C5_Witness ==
    /\ Evaluated
    /\ PuristObjects
    /\ Cardinality(NoGoVoters) < 2
    /\ Cardinality(GoVoters \ {Purist}) = 2
    /\ Cardinality(GoOthersHigh) = 1
    /\ consensus.verdict = "PIVOT"

\* C6: when none of the first three rules applies, the verdict is GO exactly
\* when GO has strictly more votes than every other verdict, with the mean
\* confidence of the GO voters; otherwise it is UNCLEAR with the mean
\* confidence of all non-failed opinions.
C6_MajorityRule ==
    (/\ Evaluated
     /\ Opinions # {}
     /\ Cardinality(NoGoVoters) < 2
     /\ ~(PuristObjects /\ ~Overridden)) =>
        IF GoStrictlyFirst
        THEN /\ consensus.verdict = "GO"
             /\ RatEq(consensus.confidence, MeanConf(opinionMap, GoVoters))
        ELSE /\ consensus.verdict = "UNCLEAR"
             /\ RatEq(consensus.confidence, MeanConf(opinionMap, Opinions))

\* A tie for first place between GO and PIVOT: evaluated UNCLEAR.
C6_Witness ==
    /\ Evaluated
    /\ Cardinality(GoVoters) = 2
    /\ Cardinality(VotersFor("pivot")) = 2
    /\ Cardinality(NoGoVoters) = 0
    /\ ~PuristObjects
    /\ consensus.verdict = "UNCLEAR"

\* The first rule of the ladder that matches the OpinionMap.
FirstRule ==
    IF Opinions = {} THEN 1
    ELSE IF Cardinality(NoGoVoters) >= 2 THEN 2
    ELSE IF PuristObjects /\ ~Overridden THEN 3
    ELSE IF GoStrictlyFirst THEN 4
    ELSE 5

\* C7: the result is the outcome of the lowest-numbered rule that matches;
\* it is never GO or PIVOT when 2 or more opinions voted NO_GO, and never GO
\* when an un-overridden purist veto is present.
C7_LadderPriority ==
    Evaluated =>
        /\ consensus.verdict = <<"UNCLEAR", "NO_GO", "PIVOT", "GO", "UNCLEAR">>[FirstRule]
        /\ consensus.reasons[1].kind =
               <<"no_usable_opinion", "voted_no_go", "purist_veto", "voted_go",
                 "no_clear_majority">>[FirstRule]
        /\ Cardinality(NoGoVoters) >= 2 => consensus.verdict \notin {"GO", "PIVOT"}
        /\ (PuristObjects /\ ~Overridden) => consensus.verdict # "GO"

\* The rejection threshold and an un-overridden veto both match: NO_GO.
C7_Witness ==
    /\ Evaluated
    /\ Cardinality(NoGoVoters) >= 2
    /\ PuristObjects /\ ~Overridden
    /\ consensus.verdict = "NO_GO"

----------------------------------------------------------------------------
(* The decision API's claims.                                              *)

RunIds == 1..Len(runs)

AllFailed(m) == \A k \in DOMAIN m : IsFailure(m[k])

\* The invocation is over: it has returned or raised.
Finished(run) == run.pc \in {"returned", "raised"}

WellFormed(decision) ==
    /\ decision.final_verdict \in Verdict
    /\ decision.confidence \in 0..100
    /\ DOMAIN decision.single_best_experiment = ExperimentFields

OwnerOf(request) ==
    IF request.project_id = Null THEN DefaultProject ELSE request.project_id

\* C3: for every OpinionMap in which every roster entry is a Failure, the
\* decision produced has verdict UNCLEAR and confidence exactly 0.3.
C3_TotalFailureDecision ==
    \A i \in RunIds :
        (/\ runs[i].toolMap # NoValue
         /\ AllFailed(runs[i].toolMap)
         /\ Finished(runs[i])) =>
            /\ runs[i].final # NoValue
            /\ runs[i].final.final_verdict = "unclear"
            /\ runs[i].final.confidence = 30

\* C8: two evaluations of the same OpinionMap with the same request mode
\* produce the same verdict and the same confidence.
C8_SameMapSameDecision ==
    \A i, j \in RunIds :
        (/\ runs[i].final # NoValue
         /\ runs[j].final # NoValue
         /\ runs[i].toolMap # NoValue
         /\ runs[i].toolMap = runs[j].toolMap
         /\ runs[i].request.mode = runs[j].request.mode) =>
            /\ runs[i].final.final_verdict = runs[j].final.final_verdict
            /\ runs[i].final.confidence = runs[j].final.confidence

\* C9: for every validated request, also when every evaluator failed or the
\* orchestrator run produced no final output, run_board_async returns a
\* well-formed FinalDecision without raising (a failure of the store, which
\* must be surfaced, aside), with verdict UNCLEAR when every evaluator failed.
C9_AlwaysWellFormedDecision ==
    \A i \in RunIds :
        /\ runs[i].pc = "raised" => runs[i].error.raised = "StoreError"
        /\ runs[i].pc = "returned" =>
            /\ WellFormed(runs[i].result.decision)
            /\ (runs[i].toolMap # NoValue /\ AllFailed(runs[i].toolMap)) =>
                   runs[i].result.decision.final_verdict = "unclear"

\* C11: if the store fails in the create step (put_item) or in the update
\* step (update_item) of save_final_output, run_board_async raises the
\* store's error and returns nothing; and no item of the table holds a
\* completed_at without a final_output.
C11_FailedSaveDetectable ==
    /\ \A i \in RunIds :
        runs[i].storeFault \in {"put_item", "update_item"} =>
            /\ runs[i].pc = "raised"
            /\ runs[i].result = NoValue
            /\ runs[i].error.raised = "StoreError"
            /\ runs[i].error.in = runs[i].storeFault
    /\ \A sid \in DOMAIN table :
        "completed_at" \in DOMAIN table[sid] => "final_output" \in DOMAIN table[sid]

\* The update step failed after the create step had put the item: the
\* invocation has raised and the item holds neither attribute; and an
\* earlier invocation's decision is stored with its completion time.
C11_Witness ==
    \E i, j \in RunIds :
        /\ runs[i].pc = "returned"
        /\ "completed_at" \in DOMAIN table[runs[i].session.session_id]
        /\ runs[j].storeFault = "update_item"
        /\ runs[j].pc = "raised"
        /\ runs[j].session.session_id \in DOMAIN table
        /\ "final_output" \notin DOMAIN table[runs[j].session.session_id]
        /\ "completed_at" \notin DOMAIN table[runs[j].session.session_id]

MaxRetries == 1

\* C19: each evaluator call is attempted at least once and at most
\* max_retries + 1 times, and it yields a Failure only after all
\* max_retries + 1 attempts have failed.
C19_BoundedRetry ==
    \A name \in BoardSet :
        tasks[name].state = "done" =>
            /\ tasks[name].attempts >= 1
            /\ tasks[name].attempts <= MaxRetries + 1
            /\ IsFailure(tasks[name].result.value) =>
                   tasks[name].attempts = MaxRetries + 1

\* C20: a fan-out that has started ends, whether or not every evaluator
\* responds: the tool returns its map, or the fan-out is aborted.
C20_FanOutEnds == (toolPc = "gathering") ~> (toolPc \in {"returned", "aborted"})

----------------------------------------------------------------------------
(* The session's claims.                                                   *)

Returned(name) == "op" \in DOMAIN ret /\ ret.op = name

\* The calls so far were made one at a time and the store answered each.
OneAtATime == "serial" \in DOMAIN ghost /\ ghost.serial /\ ~ghost.faulted

IsInfix(part, list) ==
    \E off \in 0..(Len(list) - Len(part)) :
        \A i \in 1..Len(part) : list[off + i] = part[i]

C13_EnsureIdempotent ==
    (Returned("_ensure_created") /\ SessionKey \in DOMAIN ret.before) =>
        /\ SessionKey \in DOMAIN table
        /\ table[SessionKey] = ret.before[SessionKey]

\* C14: after add_items calls only, interleaved or not, the stored list
\* holds no reasoning item, holds the non-reasoning items of every finished
\* call contiguously and in the order given, and a call whose items are all
\* reasoning traces changed nothing.
C14_AppendsAtomic ==
    ("onlyAppends" \in DOMAIN ghost /\ ghost.onlyAppends /\ ~ghost.faulted) =>
        LET stored == StoredItems(table, SessionKey)
        IN /\ \A i \in 1..Len(stored) : stored[i].type # "reasoning"
           /\ \A k \in 1..Len(ghost.added) : IsInfix(ghost.added[k], stored)
           /\ (Returned("add_items") /\ Replayable(ret.args) = <<>>) =>
                  table = ret.before

----------------------------------------------------------------------------
(* The history query's claim.                                              *)

\* The instant a stored creation time names.
TimeOf(iso) == iso.sec * TicksPerSec + iso.frac

\* The sessions of an owner in a table.
SessionsOf(tbl, pid) ==
    {sid \in DOMAIN tbl : "project_id" \in DOMAIN tbl[sid] /\ tbl[sid].project_id = pid}

\* C15: an answered get_project_history(owner, limit) returns exactly
\* min(limit, n) entries, n the number of the owner's sessions; each is a
\* different session of that owner; they are in descending creation time;
\* and no session of the owner left out is newer than one returned.
C15_QueryByOwner ==
    (Returned("get_project_history") /\ ~ret.fault) =>
        LET owned == SessionsOf(ret.before, ret.args[1])
            res == ret.result
            got == {res[i].session_id : i \in 1..Len(res)}
        IN /\ Len(res) = Min(ret.args[2], Cardinality(owned))
           /\ Cardinality(got) = Len(res)
           /\ got \subseteq owned
           /\ \A i \in 1..Len(res) :
                  res[i].created_at = ret.before[res[i].session_id].created_at
           /\ \A i, j \in 1..Len(res) :
                  i < j => TimeOf(res[i].created_at) >= TimeOf(res[j].created_at)
           /\ \A sid \in owned \ got : \A i \in 1..Len(res) :
                  TimeOf(ret.before[sid].created_at) <= TimeOf(res[i].created_at)

\* Three sessions of one owner at distinct times, one on a whole second
\* and one just after it; limit 2 has returned the two newest, newest first.
C15_Witness ==
    /\ Returned("get_project_history")
    /\ ~ret.fault
    /\ ret.args = <<"acme", 2>>
    /\ SessionsOf(ret.before, "acme") = {1, 2, 3}
    /\ TimeOf(ret.before[1].created_at) < TimeOf(ret.before[2].created_at)
    /\ TimeOf(ret.before[2].created_at) < TimeOf(ret.before[3].created_at)
    /\ ret.before[2].created_at.sep = "+"
    /\ ret.before[3].created_at.sep = "."
    /\ Len(ret.result) = 2
    /\ ret.result[1].session_id = 3
    /\ ret.result[2].session_id = 2

----------------------------------------------------------------------------
(* The ratings' claims.                                                    *)

RatingAttrs == {"rating", "rating_notes", "rated_at"}

\* C16: after any sequence of save_rating calls the stored rating of a
\* session is the last call's rating, the stored notes are the last call's
\* notes, no notes being stored when the last call supplied none; and a
\* save_rating changes no other attribute of the record.
C16_RatingLastWriteWins ==
    /\ "last" \in DOMAIN ghost =>
        \A sid \in DOMAIN ghost.last :
            /\ sid \in DOMAIN table
            /\ "rating" \in DOMAIN table[sid]
            /\ table[sid].rating = ghost.last[sid].rating
            /\ IF ghost.last[sid].notes = Null
               THEN "rating_notes" \notin DOMAIN table[sid]
               ELSE /\ "rating_notes" \in DOMAIN table[sid]
                    /\ table[sid].rating_notes = ghost.last[sid].notes
    /\ (Returned("save_rating") /\ ret.args.sid \in DOMAIN ret.before) =>
        \A attr \in DOMAIN ret.before[ret.args.sid] \ RatingAttrs :
            /\ attr \in DOMAIN table[ret.args.sid]
            /\ table[ret.args.sid][attr] = ret.before[ret.args.sid][attr]

\* C17: a rate command for an identifier that has no record fails and
\* leaves the table as it was; a rating outside {correct, partial, wrong}
\* fails before any request to the table.
C17_RateUnknownSessionFails ==
    Returned("rate") =>
        /\ ret.args.sid \notin DOMAIN ret.before =>
            /\ ret.result = "exit_1"
            /\ table = ret.before
        /\ ret.args.rating \notin RatingValues =>
            /\ ret.result = "exit_1"
            /\ ret.accesses = 0
            /\ table = ret.before

\* A rate command with an accepted rating for a session without record has
\* failed after its lookup, the table still holding no such record, after
\* an earlier command rated the existing session.
C17_Witness ==
    /\ Returned("rate")
    /\ ret.args.sid = UnknownKey
    /\ ret.args.rating \in RatingValues
    /\ ret.result = "exit_1"
    /\ ret.accesses = 1
    /\ UnknownKey \notin DOMAIN table
    /\ "rating" \in DOMAIN table[SessionKey]

----------------------------------------------------------------------------
(* The command's claim.                                                    *)

Malformed(raw) ==
    \/ raw.mode = "decide" /\ (raw.option_a = Null \/ raw.option_b = Null)
    \/ raw.since_days < 1
    \/ raw.since_days > 90
    \/ raw.text_len < 10

\* C18: a request in decide mode that lacks option A or option B, or whose
\* lookback window is outside 1..90, or whose text is shorter than 10
\* characters, is rejected with a validation error; no run is started for
\* it, so no evaluator is called and no record is written.
C18_MalformedRejected ==
    (cli # NoValue /\ Malformed(cli.raw)) =>
        /\ cli.pc = "rejected"
        /\ runs = <<>>
        /\ table = <<>>

----------------------------------------------------------------------------
(* The background tasks' claims.                                           *)

\* The tasks fire_and_forget created on the loop.
Started == {t \in TaskIds : bg.tasks[t].st \notin {"none", "sync"}}

\* C21: when run_board has closed its event loop, after a return or after
\* an exception, every task fire_and_forget started has completed or has
\* had its cancellation requested; none is left running un-cancelled.
C21_DrainedBeforeClose ==
    (bg # NoValue /\ bg.pc = "closed") =>
        \A t \in Started : TaskDone(bg.tasks[t]) \/ bg.tasks[t].cancel

\* C30: the tracked set is exact: in every state _background_tasks holds
\* just the started tasks that have not finished, so
\* background_tasks_pending() is the number of unfinished tasks, and 0 once
\* all of them have finished.
C30_TrackedSetExact ==
    bg # NoValue =>
        /\ bg.tracked = {t \in Started : ~TaskDone(bg.tasks[t])}
        /\ BackgroundTasksPending =
               Cardinality({t \in Started : ~TaskDone(bg.tasks[t])})

----------------------------------------------------------------------------
(* The tracker's claims.                                                   *)

PhaseRank(phase) ==
    CASE phase = "init" -> 0
      [] phase = "reasoning" -> 1
      [] phase = "calling_specialists" -> 2
      [] phase = "synthesizing" -> 3
      [] phase = "done" -> 4

\* C22: the phase only moves forward: after every event the phase is the
\* one before it or a later one in the order init, reasoning,
\* calling_specialists, synthesizing, done; when the stream has ended the
\* phase is done.
C22_PhaseMovesForward ==
    progress # NoValue =>
        /\ PhaseRank(progress.before.phase) <= PhaseRank(progress.phase)
        /\ progress.last = "end" => progress.phase = "done"

\* What the run gives when no observer is attached: it returns the
\* orchestrator's output as the decision and has written it to the session.
WithoutObserver(p) ==
    [kind |-> "returned", decision |-> p.output, session_id |-> p.session.session_id]

\* C23: the tracker has no effect on the decision: a run that is over has
\* returned the decision, and left the store with the record, that the run
\* without an observer gives for the same orchestrator output, whatever
\* observer is attached and whatever it did.
C23_ObserverHasNoEffect ==
    (progress # NoValue /\ progress.pc \in {"returned", "raised"}) =>
        /\ progress.result = WithoutObserver(progress)
        /\ progress.session.session_id \in DOMAIN table
        /\ "final_output" \in DOMAIN table[progress.session.session_id]

\* C29: the specialists marked done are among those marked called, and no
\* event takes a specialist out of either set, when every tool output
\* follows the call of its tool.
C29_DoneWithinCalled ==
    progress # NoValue =>
        /\ progress.specialists_done \subseteq progress.specialists_called
        /\ progress.before.specialists_called \subseteq progress.specialists_called
        /\ progress.before.specialists_done \subseteq progress.specialists_done

\* A specialist consulted alone is done while another one, consulted after
\* it, is called and not done; then run_all_specialists marks all called.
C29_Witness ==
    /\ progress # NoValue
    /\ progress.last = "tool_call"
    /\ progress.specialists_called = AllSpecialists
    /\ progress.before.specialists_called = Consulted
    /\ progress.specialists_done = {Purist}

----------------------------------------------------------------------------
(* The aggregation helpers' claims.                                        *)

Aggregated == ret # NoValue /\ "actions" \in DOMAIN ret

\* The actions of the map's opinions, Failures left out.
Offered(m) ==
    UNION {{ActionsOf(m[n])[i] : i \in 1..Len(ActionsOf(m[n]))} :
           n \in {k \in DOMAIN m : ~IsFailure(m[k])}}

\* `list` is what is left of `pool` when some of its places are dropped and
\* `at` tells the place each kept action came from.
KeptFrom(list, pool, at) ==
    /\ \A i \in 1..Len(list) : pool[at[i]] = list[i]
    /\ \A i, j \in 1..Len(list) : i < j => at[i] < at[j]

Proposed(m) ==
    {m[n].one_experiment :
        n \in {k \in DOMAIN m : ~IsFailure(m[k]) /\ "one_experiment" \in DOMAIN m[k]}}

\* In the helper written from the specification, the selected experiment
\* is one of the proposed ones and none of them is preferred to it; with
\* none proposed it is the default one, of one week.
SelectionIsMinimal ==
    (ret # NoValue /\ "experiment" \in DOMAIN ret) =>
        IF Proposed(opinionMap) = {}
        THEN ret.experiment = DefaultExperiment /\ ret.experiment.timebox = <<1, "week">>
        ELSE /\ ret.experiment \in Proposed(opinionMap)
             /\ \A e \in Proposed(opinionMap) : ~Preferred(e, ret.experiment)

\* C25: when no opinion contributes an experiment (every entry of the map
\* is a Failure) and the decision is the one the runner builds itself, the
\* decision carries the default experiment, whose timebox is "1 week"; with
\* experiments proposed, the selected one is a proposed one that is minimal
\* in the order quantitative metric first, then shorter timebox.
C25_ExperimentSelection ==
    \A i \in RunIds :
        (/\ Finished(runs[i])
         /\ runs[i].toolMap # NoValue
         /\ AllFailed(runs[i].toolMap)
         /\ runs[i].rawOutput = NoOutput) =>
            /\ runs[i].final # NoValue
            /\ runs[i].final.single_best_experiment.timebox = "1 week"

----------------------------------------------------------------------------
(* The fan-out's claims on inputs and attribution.                         *)

\* C26: project history never reaches the specialists: what every
\* specialist is sent is what it would be sent had the call's
\* project_history been any other text, and within one call all
\* specialists are sent the same input.
C26_HistoryNotPassedOn ==
    (ret # NoValue /\ toolPc = "gathering") =>
        LET started == {name \in BoardSet : ret.sent[name] # NoValue}
        IN /\ \A name \in started, input \in ToolInputs :
                  (\A f \in DOMAIN input \ {"project_history"} :
                        input[f] = ret.input[f])
                      => SpecialistInput(input) = ret.sent[name]
           /\ \A a, b \in started : ret.sent[a] = ret.sent[b]

\* The tool was called with a history, guidance and an option, and every
\* specialist has been started.
C26_Witness ==
    /\ ret # NoValue
    /\ toolPc = "gathering"
    /\ ret.input.project_history = "h1"
    /\ \A name \in BoardSet : ret.sent[name] # NoValue
    /\ Len(ret.sent[Purist].context) = 2

\* C27: results are attributed to the right evaluator: in the map the
\* fan-out returned, the entry under each key is what that evaluator's own
\* call returned, carries that evaluator's name, and is a Failure exactly
\* when that evaluator's call failed, with the verdict that call produced
\* otherwise.
C27_AttributedToOwnCall ==
    toolPc = "returned" =>
        \A name \in BoardSet :
            /\ outputs[name] = tasks[name].result.value
            /\ outputs[name] = RunSpecialistAgent(name, tasks[name].outcome)
            /\ outputs[name].agent_name = name
            /\ IsFailure(outputs[name]) <=> Failed(tasks[name].outcome)
            /\ ~Failed(tasks[name].outcome) =>
                   outputs[name].verdict = tasks[name].outcome.value.verdict

\* The first and the last member's calls ended differently, one in a
\* failure and one in an opinion written under another name.
C27_Witness ==
    /\ toolPc = "returned"
    /\ tasks[Board[1]].outcome.kind = "raise"
    /\ tasks[Purist].outcome.kind = "output"
    /\ tasks[Purist].outcome.value.agent_name # Purist
    /\ tasks[Purist].outcome.value.verdict = "CUT"
    /\ outputs[Purist].verdict = "CUT"
    /\ IsFailure(outputs[Board[1]])

----------------------------------------------------------------------------
(* The records' claim.                                                     *)

\* The sessions get_project_history lists for an owner, limit permitting.
Listed(tbl, pid) ==
    LET history == GetProjectHistory(tbl, pid, Cardinality(DOMAIN tbl))
    IN {history[i].session_id : i \in 1..Len(history)}

\* C28: every record of the store is complete enough to be listed: it has
\* an owner and a creation time, and every session that has a final output
\* is among those get_project_history returns for its owner.
C28_RecordsListable ==
    (ghost # NoValue /\ "ops" \in DOMAIN ghost) =>
        \A sid \in DOMAIN table :
            /\ {"project_id", "created_at"} \subseteq DOMAIN table[sid]
            /\ "final_output" \in DOMAIN table[sid] =>
                   sid \in Listed(table, callers[sid].project_id)


====
